---------------------------- MODULE Spec2Model ----------------------------
(***************************************************************************)
(* Model of the renderer of ImageViewer (src/renderer/renderer.js): the    *)
(* paginated media session, the full-screen viewer and the derived tags.   *)
(*                                                                         *)
(* The renderer runs on one event loop.  Every action below is one task of *)
(* that loop: a user event handler, the resumption of the incremental      *)
(* render after a frame, or the settlement of a page request (the then /   *)
(* catch / finally callbacks of one promise chain run back to back).       *)
(* The DOM elements looked up at the top of renderer.js are present.       *)
(***************************************************************************)
EXTENDS Integers, Sequences, FiniteSets, TLC

(***************************************************************************)
(* Bounds of the model.                                                    *)
(***************************************************************************)
MaxSessions == 2
MaxTagSessions == 4
MaxPage == 2
MaxNameLen == 3
MaxOption == 8

(***************************************************************************)
(* Program constants.                                                      *)
(***************************************************************************)
MEDIA_RENDER_BATCH_SIZE == 12
MIN_TAG_OCCURRENCE == 2

(***************************************************************************)
(* Encodings of null.                                                      *)
(***************************************************************************)
NoIndex == -1
NoHint == -1
NoTotal == -1
NoPath == "none"
NoFile == <<>>

Max(a, b) == IF a >= b THEN a ELSE b
Min(a, b) == IF a <= b THEN a ELSE b

(***************************************************************************)
(* Strings are sequences of one-character strings, so that trimming, case  *)
(* folding and tokenizing are computed.  "*" stands for the star glyph.    *)
(***************************************************************************)
Digits == {"0", "1", "2"}
LowerLetters == {"a", "b", "c", "d", "l", "n", "o", "p", "r", "t", "v"}
UpperLetters == {"A", "B", "C", "D", "N", "O", "V"}
Whitespace == {" "}
PathSeparators == {"/", "\\"}

toLowerChar(c) ==
  CASE c = "A" -> "a" [] c = "B" -> "b" [] c = "C" -> "c" [] c = "D" -> "d"
    [] c = "N" -> "n" [] c = "O" -> "o" [] c = "V" -> "v" [] OTHER -> c

toLowerCase(s) == [i \in 1..Len(s) |-> toLowerChar(s[i])]

RECURSIVE trimStart(_)
trimStart(s) ==
  IF s # <<>> /\ Head(s) \in Whitespace THEN trimStart(Tail(s)) ELSE s

RECURSIVE trimEnd(_)
trimEnd(s) ==
  IF s # <<>> /\ s[Len(s)] \in Whitespace
  THEN trimEnd(SubSeq(s, 1, Len(s) - 1)) ELSE s

trim(s) == trimEnd(trimStart(s))

Range(s) == {s[i] : i \in 1..Len(s)}

\* Array.from(new Set(list)): first occurrences, in order.
RECURSIVE Dedup(_)
Dedup(s) ==
  IF s = <<>> THEN <<>>
  ELSE LET front == Dedup(SubSeq(s, 1, Len(s) - 1))
       IN IF s[Len(s)] \in Range(front) THEN front
          ELSE Append(front, s[Len(s)])

\* STAR_KEYWORD_PATTERN = /^[star]+$/u
isStarKeyword(keyword) ==
  keyword # <<>> /\ \A i \in 1..Len(keyword) : keyword[i] = "*"

\* /^\d+$/u
IsNumeric(token) ==
  token # <<>> /\ \A i \in 1..Len(token) : token[i] \in Digits

\* NUMBERED_KEYWORD_PATTERN = /^(?:vol|part|no)[0-9]*$/u
NUMBERED_KEYWORD_PATTERN(token) ==
  \E prefix \in {<<"v", "o", "l">>, <<"p", "a", "r", "t">>, <<"n", "o">>} :
     /\ Len(token) >= Len(prefix)
     /\ SubSeq(token, 1, Len(prefix)) = prefix
     /\ \A i \in (Len(prefix) + 1)..Len(token) : token[i] \in Digits

IsWordChar(c) == c \in LowerLetters \cup UpperLetters \cup Digits

RECURSIVE StarRun(_)
StarRun(s) == IF s # <<>> /\ Head(s) = "*" THEN 1 + StarRun(Tail(s)) ELSE 0

RECURSIVE WordRun(_)
WordRun(s) == IF s # <<>> /\ IsWordChar(Head(s)) THEN 1 + WordRun(Tail(s)) ELSE 0

\* name.match(/(?:[star]+|[\p{Script=Han}\p{L}\p{N}]+)/gu)
RECURSIVE matchKeywordPattern(_)
matchKeywordPattern(s) ==
  IF s = <<>> THEN <<>>
  ELSE IF StarRun(s) > 0
  THEN <<SubSeq(s, 1, StarRun(s))>>
         \o matchKeywordPattern(SubSeq(s, StarRun(s) + 1, Len(s)))
  ELSE IF WordRun(s) > 0
  THEN <<SubSeq(s, 1, WordRun(s))>>
         \o matchKeywordPattern(SubSeq(s, WordRun(s) + 1, Len(s)))
  ELSE matchKeywordPattern(Tail(s))

\* extractKeywords without the test on the length of a token.
extractKeywords_KeepShort(name) ==
  LET matches == matchKeywordPattern(name)
      trimmed == SelectSeq([i \in 1..Len(matches) |-> trim(matches[i])],
                           LAMBDA t : t # <<>>)
      folded == [i \in 1..Len(trimmed) |->
                   IF isStarKeyword(trimmed[i]) THEN trimmed[i]
                   ELSE toLowerCase(trimmed[i])]
      kept == SelectSeq(folded,
                LAMBDA t : IF isStarKeyword(t) THEN TRUE
                           ELSE IF IsNumeric(t) THEN FALSE
                           ELSE IF NUMBERED_KEYWORD_PATTERN(t) THEN FALSE
                           ELSE TRUE)
  IN Dedup(kept)

extractKeywords(name) ==
  LET matches == matchKeywordPattern(name)
      trimmed == SelectSeq([i \in 1..Len(matches) |-> trim(matches[i])],
                           LAMBDA t : t # <<>>)
      folded == [i \in 1..Len(trimmed) |->
                   IF isStarKeyword(trimmed[i]) THEN trimmed[i]
                   ELSE toLowerCase(trimmed[i])]
      kept == SelectSeq(folded,
                LAMBDA t : IF isStarKeyword(t) THEN TRUE
                           ELSE IF IsNumeric(t) THEN FALSE
                           ELSE IF NUMBERED_KEYWORD_PATTERN(t) THEN FALSE
                           ELSE Len(t) > 1)
  IN Dedup(kept)

\* The last non-empty segment of displayPath, or displayPath itself.
RECURSIVE LastSegment(_, _)
LastSegment(s, current) ==
  IF s = <<>> THEN current
  ELSE IF Head(s) \in PathSeparators
  THEN LET rest == LastSegment(Tail(s), <<>>)
       IN IF rest = <<>> THEN current ELSE rest
  ELSE LastSegment(Tail(s), Append(current, Head(s)))

getLeafName(leaf) ==
  LET last == LastSegment(leaf.displayPath, <<>>)
  IN IF last # <<>> THEN last ELSE leaf.displayPath

normalizeExcludedTags(list) ==
  LET trimmed == SelectSeq([i \in 1..Len(list) |-> trim(list[i])],
                           LAMBDA t : t # <<>>)
  IN Dedup([i \in 1..Len(trimmed) |->
              IF isStarKeyword(trimmed[i]) THEN trimmed[i]
              ELSE toLowerCase(trimmed[i])])

(***************************************************************************)
(* The leaf directories the scanner can report, and the directory listing  *)
(* the page fetcher serves.  A media file is <<directory path, position>>. *)
(***************************************************************************)
LeafA == [path |-> "/a", displayPath |-> <<"A", "b", " ", "c", "d">>,
          mediaFiles |-> 0, hint |-> 2]
LeafB == [path |-> "/b", displayPath |-> <<"d", "/", "a", "b", " ", "*">>,
          mediaFiles |-> 13, hint |-> 14]
LeafC == [path |-> "/c", displayPath |-> <<"C", "D", " ", "*", " ", "n", "o", "1">>,
          mediaFiles |-> 0, hint |-> NoHint]
LeafD == [path |-> "/d", displayPath |-> <<"a", "b", "-", "1">>,
          mediaFiles |-> 2, hint |-> NoHint]

ScanResults == { <<>>, <<LeafA, LeafB>>, <<LeafD, LeafC, LeafA>> }

\* What can be found in localStorage at start, and what the user can type
\* into the excluded-tag form.
StoredLists == { <<>>, << <<" ", "A", "b">>, <<"a", "b">> >> }
FormInputs == { <<>>, <<"c", "d">>, <<"A", "b">>, <<"A", "B", " ", "*">> }

\* What the user can type into the tag search form, and what the main
\* process can report as saved root directories.
SearchInputs == { <<>>, <<"a">> }
SavedTagLists == { <<>>, <<"/root">> }

Keywords == { <<"a", "b">>, <<"c", "d">>, <<"*">> }

NoTag == <<>>

DirSize(path) ==
  CASE path = "/a" -> 3
    [] path = "/b" -> 14
    [] path = "/c" -> 1
    [] path = "/d" -> 2
    [] OTHER -> 0

FileAt(path, pos) == <<path, pos>>

\* The first n entries of a leaf's embedded mediaFiles array.
LeafFiles(leaf) == [i \in 1..leaf.mediaFiles |-> FileAt(leaf.path, i - 1)]

\* The slice [offset, offset + n) of the listing of a directory.
DirSlice(path, offset, n) == [i \in 1..n |-> FileAt(path, offset + i - 1)]

\* Request ids in use; two spare ids let a handler be evaluated on a state
\* that has used up its sessions.
SessionIds == 0..(Max(MaxSessions, MaxTagSessions) + 2)

VARIABLES
  sessionLimit,               \* how many sessions a behaviour may start
  fetchApiAvailable,          \* mediaApi?.fetchNextMediaChunk is a function
  leaves,                     \* currentState.leaves
  selectedPath,               \* currentState.selectedPath
  derivedTags,                \* currentState.derivedTags
  keywordIndex,               \* currentState.keywordIndex
  activeTag,                  \* currentState.activeTag
  excludedTags,               \* currentState.excludedTags
  savedTags,                  \* currentState.savedTags
  tagSortMode,                \* currentState.tagSortMode
  tagSearchQuery,             \* currentState.tagSearchQuery
  tagSearchDraft,             \* let tagSearchDraft
  excludedTagPanelExpanded,   \* currentState.excludedTagPanelExpanded
  storedExcludedTags,         \* localStorage[EXCLUDED_TAGS_STORAGE_KEY]
  mediaSessionSequence,       \* let mediaSessionSequence
  mediaSession,               \* requestId of the object mediaSession points to
  sessions,                   \* the session objects ever created, by requestId
  mediaViewerState,           \* const mediaViewerState
  mediaRenderAbortController, \* owner of the controller, 0 for null
  aborted,                    \* controller.signal.aborted, per session
  render,                     \* suspended renderMediaIncrementally calls
  inflight,                   \* outstanding mediaApi.fetchNextMediaChunk calls
  grid,                       \* the cards in mediaGridEl
  listRequest,                \* the last list-media-files call of the main process
  listResult,                 \* what listMediaFiles answered to it
  state,                      \* let state of preferences.js
  storeFile,                  \* the rootTags of preferences.json on disk
  persists,                   \* the persist() calls that have not returned
  imageLoader,                \* the closure of createWorkerImageLoader
  imageWorker,                \* the image worker: activeTasks and its tasks
  toWorker,                   \* worker.postMessage: messages on their way
  toMain                      \* the worker's postMessage: messages on their way

vars == <<sessionLimit, fetchApiAvailable, leaves, selectedPath, derivedTags, keywordIndex,
          activeTag, excludedTags, storedExcludedTags, mediaSessionSequence,
          mediaSession, sessions, mediaViewerState,
          mediaRenderAbortController, aborted, render, inflight, grid,
          listRequest, listResult, savedTags, tagSortMode, tagSearchQuery,
          tagSearchDraft, excludedTagPanelExpanded, state, storeFile,
          persists, imageLoader, imageWorker, toWorker, toMain>>

\* The variables of the worker image loader.
loaderVars == <<imageLoader, imageWorker, toWorker, toMain>>

\* The variables of the renderer.
rendererVars ==
  <<sessionLimit, fetchApiAvailable, leaves, selectedPath, derivedTags,
    keywordIndex, activeTag, excludedTags, storedExcludedTags,
    mediaSessionSequence, mediaSession, sessions, mediaViewerState,
    mediaRenderAbortController, aborted, render, inflight, grid, savedTags,
    tagSortMode, tagSearchQuery, tagSearchDraft, excludedTagPanelExpanded>>

\* The variables of the preferences of the main process.
prefsVars == <<state, storeFile, persists>>

createEmptyMediaSession ==
  [requestId |-> 0, totalCount |-> 0, items |-> <<>>,
   pendingIndex |-> NoIndex, loadingPromise |-> "none", leafPath |-> NoPath]

createMediaViewerState ==
  [isOpen |-> FALSE, index |-> -1, sessionRequestId |-> 0,
   currentFile |-> NoFile]

NoRender == [waiting |-> FALSE, queue |-> <<>>, filesLen |-> 0]

\* The mutable state of the renderer as one value, so that a handler and
\* the functions it calls compose as functions from state to state.
World ==
  [api |-> fetchApiAvailable, leaves |-> leaves, selectedPath |-> selectedPath,
   derivedTags |-> derivedTags, keywordIndex |-> keywordIndex,
   activeTag |-> activeTag, excludedTags |-> excludedTags,
   stored |-> storedExcludedTags,
   savedTags |-> savedTags, tagSortMode |-> tagSortMode,
   tagSearchQuery |-> tagSearchQuery, tagSearchDraft |-> tagSearchDraft,
   excludedTagPanelExpanded |-> excludedTagPanelExpanded,
   seq |-> mediaSessionSequence, cur |-> mediaSession, sess |-> sessions,
   viewer |-> mediaViewerState, ctrl |-> mediaRenderAbortController,
   aborted |-> aborted, render |-> render, inflight |-> inflight,
   grid |-> grid]

\* A session object that is neither the current one nor referenced by a
\* pending callback (an outstanding page request, a suspended render) is
\* unreachable; its slot goes back to the empty record.
collect(w) ==
  LET dead(rid) == /\ rid # w.cur
                   /\ w.inflight[rid] = <<>>
                   /\ ~w.render[rid].waiting
  IN [w EXCEPT
        !.sess = [rid \in SessionIds |->
                    IF dead(rid) THEN createEmptyMediaSession ELSE w.sess[rid]],
        !.aborted = [rid \in SessionIds |->
                       IF dead(rid) THEN FALSE ELSE w.aborted[rid]],
        !.render = [rid \in SessionIds |->
                      IF dead(rid) THEN NoRender ELSE w.render[rid]]]

Commit(v) ==
  \E v0 \in {v} : \E w \in {collect(v0)} :
  /\ sessionLimit' = sessionLimit
  /\ fetchApiAvailable' = w.api
  /\ leaves' = w.leaves
  /\ selectedPath' = w.selectedPath
  /\ derivedTags' = w.derivedTags
  /\ keywordIndex' = w.keywordIndex
  /\ activeTag' = w.activeTag
  /\ excludedTags' = w.excludedTags
  /\ storedExcludedTags' = w.stored
  /\ mediaSessionSequence' = w.seq
  /\ mediaSession' = w.cur
  /\ sessions' = w.sess
  /\ mediaViewerState' = w.viewer
  /\ mediaRenderAbortController' = w.ctrl
  /\ aborted' = w.aborted
  /\ render' = w.render
  /\ inflight' = w.inflight
  /\ grid' = w.grid
  /\ savedTags' = w.savedTags
  /\ tagSortMode' = w.tagSortMode
  /\ tagSearchQuery' = w.tagSearchQuery
  /\ tagSearchDraft' = w.tagSearchDraft
  /\ excludedTagPanelExpanded' = w.excludedTagPanelExpanded
  /\ UNCHANGED <<listRequest, listResult, prefsVars, loaderVars>>

getMediaSessionTotal(session) ==
  IF session.totalCount > 0 THEN session.totalCount ELSE Len(session.items)

\* fetchNextMediaChunk without its guard on session.loadingPromise.
fetchNextMediaChunk_NoGuard(w, rid) ==
  LET session == w.sess[rid] IN
  IF ~w.api \/ session.leafPath = NoPath THEN w
  ELSE [w EXCEPT !.inflight[rid] = Append(@, Len(session.items)),
                 !.sess[rid].loadingPromise = "fetch"]

fetchNextMediaChunk(w, rid) ==
  LET session == w.sess[rid] IN
  IF session.loadingPromise # "none" THEN w
  ELSE IF ~w.api \/ session.leafPath = NoPath THEN w
  ELSE [w EXCEPT !.inflight[rid] = Append(@, Len(session.items)),
                 !.sess[rid].loadingPromise = "fetch"]

ensureMediaViewerActive(w, sessionRequestId) ==
  [w EXCEPT !.viewer.isOpen = TRUE,
            !.viewer.sessionRequestId = sessionRequestId]

showMediaViewerLoadingState(w, index, total) ==
  LET w1 == ensureMediaViewerActive(w, w.sess[w.cur].requestId) IN
  [w1 EXCEPT !.viewer.index = index, !.viewer.currentFile = NoFile]

showMediaViewerItem(w, index) ==
  LET session == w.sess[w.cur]
      total == getMediaSessionTotal(session)
      targetIndex == Max(0, Min(index, total - 1))
  IN
  IF session.requestId = 0 THEN w
  ELSE IF total = 0 THEN w
  ELSE IF targetIndex >= Len(session.items)
  THEN fetchNextMediaChunk(
         showMediaViewerLoadingState(
           [w EXCEPT !.sess[w.cur].pendingIndex = targetIndex],
           targetIndex, total),
         w.cur)
  ELSE
    LET file == session.items[targetIndex + 1]
        w1 == ensureMediaViewerActive(w, session.requestId)
        w2 == [w1 EXCEPT !.sess[w.cur].pendingIndex = NoIndex,
                         !.viewer.index = targetIndex,
                         !.viewer.currentFile = file,
                         !.viewer.sessionRequestId = session.requestId]
    IN IF targetIndex >= Len(session.items) - 2 /\ Len(session.items) < total
       THEN fetchNextMediaChunk(w2, w.cur)
       ELSE w2

\* handleMediaViewerItemsAppended delivering the pending index only once an
\* item past it is loaded as well.
handleMediaViewerItemsAppended_OneMore(w, rid) ==
  IF rid # w.cur THEN w
  ELSE
    LET session == w.sess[rid] IN
    IF /\ session.pendingIndex # NoIndex
       /\ session.pendingIndex >= 0
       /\ session.pendingIndex < Len(session.items) - 1
       /\ w.viewer.isOpen
       /\ w.viewer.sessionRequestId = session.requestId
    THEN showMediaViewerItem([w EXCEPT !.sess[rid].pendingIndex = NoIndex],
                             session.pendingIndex)
    ELSE w

handleMediaViewerItemsAppended(w, rid) ==
  IF rid # w.cur THEN w
  ELSE
    LET session == w.sess[rid] IN
    IF /\ session.pendingIndex # NoIndex
       /\ session.pendingIndex >= 0
       /\ session.pendingIndex < Len(session.items)
       /\ w.viewer.isOpen
       /\ w.viewer.sessionRequestId = session.requestId
    THEN showMediaViewerItem([w EXCEPT !.sess[rid].pendingIndex = NoIndex],
                             session.pendingIndex)
    ELSE w

\* renderMediaChunk putting the chunk in front of the loaded items.
renderMediaChunk_Unshift(w, rid, chunk, signalAborted) ==
  IF chunk = <<>> \/ signalAborted THEN w
  ELSE
    LET base == Len(w.sess[rid].items)
        cards == [i \in 1..Len(chunk) |->
                    [file |-> chunk[i], index |-> base + i - 1]]
        w1 == [w EXCEPT !.sess[rid].items = chunk \o @,
                        !.grid = @ \o cards]
    IN handleMediaViewerItemsAppended(w1, rid)

renderMediaChunk(w, rid, chunk, signalAborted) ==
  IF chunk = <<>> \/ signalAborted THEN w
  ELSE
    LET base == Len(w.sess[rid].items)
        cards == [i \in 1..Len(chunk) |->
                    [file |-> chunk[i], index |-> base + i - 1]]
        w1 == [w EXCEPT !.sess[rid].items = @ \o chunk,
                        !.grid = @ \o cards]
    IN handleMediaViewerItemsAppended(w1, rid)

\* openMediaViewerAtIndex leaving out the page request for an index that is
\* not loaded.
openMediaViewerAtIndex_NoFetch(w, index) ==
  LET session == w.sess[w.cur]
      total == getMediaSessionTotal(session)
      clampedIndex == Max(0, Min(index, total - 1))
  IN
  IF total = 0 THEN w
  ELSE
    LET w1 == ensureMediaViewerActive(w, session.requestId) IN
    IF clampedIndex >= Len(session.items)
    THEN showMediaViewerLoadingState(
           [w1 EXCEPT !.sess[w.cur].pendingIndex = clampedIndex],
           clampedIndex, total)
    ELSE showMediaViewerItem(
           [w1 EXCEPT !.sess[w.cur].pendingIndex = NoIndex], clampedIndex)

openMediaViewerAtIndex(w, index) ==
  LET session == w.sess[w.cur]
      total == getMediaSessionTotal(session)
      clampedIndex == Max(0, Min(index, total - 1))
  IN
  IF total = 0 THEN w
  ELSE
    LET w1 == ensureMediaViewerActive(w, session.requestId) IN
    IF clampedIndex >= Len(session.items)
    THEN fetchNextMediaChunk(
           showMediaViewerLoadingState(
             [w1 EXCEPT !.sess[w.cur].pendingIndex = clampedIndex],
             clampedIndex, total),
           w.cur)
    ELSE showMediaViewerItem(
           [w1 EXCEPT !.sess[w.cur].pendingIndex = NoIndex], clampedIndex)

\* stepMediaViewer going round at the ends instead of stopping.
stepMediaViewer_Wrap(w, delta) ==
  LET session == w.sess[w.cur]
      total == getMediaSessionTotal(session)
      currentIndex == IF session.pendingIndex # NoIndex
                      THEN session.pendingIndex ELSE w.viewer.index
      nextIndex == (currentIndex + delta) % total
  IN
  IF ~w.viewer.isOpen \/ delta = 0 THEN w
  ELSE IF total = 0 THEN w
  ELSE IF currentIndex < 0 THEN w
  ELSE IF nextIndex = currentIndex THEN w
  ELSE openMediaViewerAtIndex(w, nextIndex)

stepMediaViewer(w, delta) ==
  LET session == w.sess[w.cur]
      total == getMediaSessionTotal(session)
      currentIndex == IF session.pendingIndex # NoIndex
                      THEN session.pendingIndex ELSE w.viewer.index
      nextIndex == Max(0, Min(currentIndex + delta, total - 1))
  IN
  IF ~w.viewer.isOpen \/ delta = 0 THEN w
  ELSE IF total = 0 THEN w
  ELSE IF currentIndex < 0 THEN w
  ELSE IF nextIndex = currentIndex THEN w
  ELSE openMediaViewerAtIndex(w, nextIndex)

\* closeMediaViewer leaving pendingIndex of the session as it is.
closeMediaViewer_KeepPending(w, force) ==
  IF ~w.viewer.isOpen /\ ~force THEN w
  ELSE [w EXCEPT !.viewer = createMediaViewerState]

closeMediaViewer(w, force) ==
  LET w1 == [w EXCEPT !.sess[w.cur].pendingIndex = NoIndex] IN
  IF ~w.viewer.isOpen /\ ~force THEN w1
  ELSE [w1 EXCEPT !.viewer = createMediaViewerState]

\* resetMediaView without the abort of the render controller.
resetMediaView_NoAbort(w) ==
  LET w2 == [w EXCEPT !.ctrl = 0, !.grid = <<>>, !.cur = 0,
                      !.sess[0] = createEmptyMediaSession]
  IN closeMediaViewer(w2, TRUE)

\* resetMediaView leaving the viewer as it is.
resetMediaView_KeepViewer(w) ==
  LET w1 == IF w.ctrl # 0 THEN [w EXCEPT !.aborted[w.ctrl] = TRUE] ELSE w
  IN [w1 EXCEPT !.ctrl = 0, !.grid = <<>>, !.cur = 0,
                !.sess[0] = createEmptyMediaSession]

resetMediaView(w) ==
  LET w1 == IF w.ctrl # 0 THEN [w EXCEPT !.aborted[w.ctrl] = TRUE] ELSE w
      w2 == [w1 EXCEPT !.ctrl = 0, !.grid = <<>>, !.cur = 0,
                       !.sess[0] = createEmptyMediaSession]
  IN closeMediaViewer(w2, TRUE)

\* The .finally callback of the render promise of startMediaLoadingForLeaf.
renderSettled(w, rid) ==
  LET w1 == IF w.cur = rid
            THEN [w EXCEPT !.sess[rid].loadingPromise = "none"] ELSE w
      w2 == IF w1.ctrl = rid THEN [w1 EXCEPT !.ctrl = 0] ELSE w1
      w3 == handleMediaViewerItemsAppended(w2, rid)
  IN IF /\ w3.cur = rid
        /\ w3.render[rid].filesLen = 0
        /\ w3.sess[rid].totalCount > 0
        /\ w3.api
        /\ ~w3.aborted[rid]
     THEN fetchNextMediaChunk(w3, rid)
     ELSE w3

\* One turn of the loop of renderMediaIncrementally, up to the next await
\* or to the return of the function (and then the settlement of its promise).
renderMediaIncrementally(w, rid, settleNow) ==
  LET queue == w.render[rid].queue IN
  IF queue # <<>> /\ ~w.aborted[rid]
  THEN
    LET n == Min(MEDIA_RENDER_BATCH_SIZE, Len(queue))
        chunk == SubSeq(queue, 1, n)
        rest == SubSeq(queue, n + 1, Len(queue))
        w1 == renderMediaChunk([w EXCEPT !.render[rid].queue = rest],
                               rid, chunk, w.aborted[rid])
    IN IF rest # <<>> /\ ~w1.aborted[rid]
       THEN [w1 EXCEPT !.render[rid].waiting = TRUE]
       ELSE LET w2 == [w1 EXCEPT !.render[rid].waiting = FALSE]
            IN IF settleNow THEN renderSettled(w2, rid) ELSE w2
  ELSE LET w2 == [w EXCEPT !.render[rid].waiting = FALSE]
       IN IF settleNow THEN renderSettled(w2, rid) ELSE w2

\* startMediaLoadingForLeaf taking the counter as it stands, but for the
\* first session.
startMediaLoadingForLeaf_SameId(w, leaf) ==
  LET rid == Max(1, w.seq)
      files == LeafFiles(leaf)
      initialTotal == Max(Len(files), IF leaf.hint # NoHint THEN leaf.hint ELSE 0)
      session == [createEmptyMediaSession EXCEPT
                    !.requestId = rid, !.totalCount = initialTotal,
                    !.leafPath = leaf.path]
      w1 == [w EXCEPT !.ctrl = rid, !.aborted[rid] = FALSE, !.seq = rid,
                      !.sess[rid] = session, !.cur = rid,
                      !.render[rid] = [waiting |-> FALSE, queue |-> files,
                                       filesLen |-> Len(files)]]
      \* the synchronous part of renderMediaIncrementally
      w2 == renderMediaIncrementally(w1, rid, FALSE)
      w3 == [w2 EXCEPT !.sess[rid].loadingPromise = "render"]
  IN IF w3.render[rid].waiting THEN w3 ELSE renderSettled(w3, rid)

startMediaLoadingForLeaf(w, leaf) ==
  LET rid == w.seq + 1
      files == LeafFiles(leaf)
      initialTotal == Max(Len(files), IF leaf.hint # NoHint THEN leaf.hint ELSE 0)
      session == [createEmptyMediaSession EXCEPT
                    !.requestId = rid, !.totalCount = initialTotal,
                    !.leafPath = leaf.path]
      w1 == [w EXCEPT !.ctrl = rid, !.aborted[rid] = FALSE, !.seq = rid,
                      !.sess[rid] = session, !.cur = rid,
                      !.render[rid] = [waiting |-> FALSE, queue |-> files,
                                       filesLen |-> Len(files)]]
      \* the synchronous part of renderMediaIncrementally
      w2 == renderMediaIncrementally(w1, rid, FALSE)
      w3 == [w2 EXCEPT !.sess[rid].loadingPromise = "render"]
  IN IF w3.render[rid].waiting THEN w3 ELSE renderSettled(w3, rid)

getLeafMediaTotal(leaf) == leaf.hint

FindLeaf(ls, path) ==
  IF \E i \in 1..Len(ls) : ls[i].path = path
  THEN ls[CHOOSE i \in 1..Len(ls) :
            /\ ls[i].path = path
            /\ \A j \in 1..(i - 1) : ls[j].path # path]
  ELSE [path |-> NoPath, mediaFiles |-> 0, hint |-> NoHint]

renderMedia(w) ==
  LET w1 == resetMediaView(w)
      leaf == FindLeaf(w1.leaves, w1.selectedPath)
      totalFromLeaf == getLeafMediaTotal(leaf)
      canLoadMore == IF totalFromLeaf # NoHint THEN totalFromLeaf > 0 ELSE w1.api
  IN
  IF w1.selectedPath = NoPath THEN w1
  ELSE IF leaf.path = NoPath THEN w1
  ELSE IF leaf.mediaFiles = 0 /\ ~canLoadMore THEN w1
  ELSE startMediaLoadingForLeaf(w1, leaf)

(***************************************************************************)
(* Derived tags and the application state.                                 *)
(***************************************************************************)
\* The inner loop of buildDerivedTags: one leaf's keywords into the buckets.
RECURSIVE countKeywords(_, _, _)
countKeywords(buckets, keywords, excluded) ==
  IF keywords = <<>> THEN buckets
  ELSE
    LET keyword == Head(keywords)
        next ==
          IF keyword \in excluded THEN buckets
          ELSE IF \E i \in 1..Len(buckets) : buckets[i].id = keyword
          THEN [i \in 1..Len(buckets) |->
                  IF buckets[i].id = keyword
                  THEN [buckets[i] EXCEPT !.count = @ + 1] ELSE buckets[i]]
          ELSE Append(buckets, [id |-> keyword, count |-> 1])
    IN countKeywords(next, Tail(keywords), excluded)

RECURSIVE countLeaves(_, _, _)
countLeaves(buckets, ls, excluded) ==
  IF ls = <<>> THEN buckets
  ELSE countLeaves(
         countKeywords(buckets, extractKeywords(getLeafName(Head(ls))), excluded),
         Tail(ls), excluded)

LastIndexOfPath(ls, path) ==
  CHOOSE i \in 1..Len(ls) :
    /\ ls[i].path = path
    /\ \A j \in (i + 1)..Len(ls) : ls[j].path # path

\* buildDerivedTags keeping every keyword it counted.
buildDerivedTags_NoThreshold(ls, excluded) ==
  [tags |-> SelectSeq(countLeaves(<<>>, ls, Range(excluded)),
                      LAMBDA bucket : bucket.count >= 1),
   keywordIndex |->
     [path \in {ls[i].path : i \in 1..Len(ls)} |->
        extractKeywords(getLeafName(ls[LastIndexOfPath(ls, path)]))]]

buildDerivedTags(ls, excluded) ==
  [tags |-> SelectSeq(countLeaves(<<>>, ls, Range(excluded)),
                      LAMBDA bucket : bucket.count >= MIN_TAG_OCCURRENCE),
   keywordIndex |->
     [path \in {ls[i].path : i \in 1..Len(ls)} |->
        extractKeywords(getLeafName(ls[LastIndexOfPath(ls, path)]))]]

keywordsOfLeaf(w, leaf) ==
  IF leaf.path \in DOMAIN w.keywordIndex THEN w.keywordIndex[leaf.path] ELSE <<>>

isStarLeaf(w, leaf) ==
  \/ \E k \in Range(keywordsOfLeaf(w, leaf)) : isStarKeyword(k)
  \/ "*" \in Range(leaf.displayPath)

\* Array.prototype.sort with compareLeavesByStarPriority is stable.
getVisibleLeaves(w) ==
  LET baseLeaves ==
        IF w.activeTag = NoTag THEN w.leaves
        ELSE SelectSeq(w.leaves,
               LAMBDA leaf : w.activeTag \in Range(keywordsOfLeaf(w, leaf)))
  IN SelectSeq(baseLeaves, LAMBDA leaf : isStarLeaf(w, leaf))
       \o SelectSeq(baseLeaves, LAMBDA leaf : ~isStarLeaf(w, leaf))

\* ensureSelection keeping a selection that is not among the visible leaves.
ensureSelection_KeepStale(w) ==
  LET visibleLeaves == getVisibleLeaves(w) IN
  IF visibleLeaves = <<>> THEN [w EXCEPT !.selectedPath = NoPath]
  ELSE IF w.selectedPath = NoPath
  THEN [w EXCEPT !.selectedPath = visibleLeaves[1].path]
  ELSE w

ensureSelection(w) ==
  LET visibleLeaves == getVisibleLeaves(w) IN
  IF visibleLeaves = <<>> THEN [w EXCEPT !.selectedPath = NoPath]
  ELSE IF w.selectedPath = NoPath
  THEN [w EXCEPT !.selectedPath = visibleLeaves[1].path]
  ELSE IF \E i \in 1..Len(visibleLeaves) : visibleLeaves[i].path = w.selectedPath
  THEN w
  ELSE [w EXCEPT !.selectedPath = visibleLeaves[1].path]

\* saveExcludedTags writing nothing.
saveExcludedTags_Skip(w, tags) == w

saveExcludedTags(w, tags) == [w EXCEPT !.stored = normalizeExcludedTags(tags)]

normalizeTagSortMode(mode) ==
  IF mode = "frequency" THEN "frequency" ELSE "alphabetical"

\* patch is a record holding the keys of the patch object.
updateState(w, patch) ==
  LET has(key) == key \in DOMAIN patch
      n1 == [w EXCEPT
               !.leaves = IF has("leaves") THEN patch.leaves ELSE @,
               !.selectedPath = IF has("selectedPath") THEN patch.selectedPath ELSE @,
               !.activeTag = IF has("activeTag") THEN patch.activeTag ELSE @,
               !.excludedTags = IF has("excludedTags") THEN patch.excludedTags ELSE @,
               !.savedTags = IF has("savedTags") THEN patch.savedTags ELSE @,
               !.tagSortMode = IF has("tagSortMode")
                               THEN normalizeTagSortMode(patch.tagSortMode)
                               ELSE @,
               !.tagSearchQuery = IF has("tagSearchQuery")
                                  THEN patch.tagSearchQuery ELSE @,
               !.tagSearchDraft = IF has("tagSearchQuery")
                                  THEN patch.tagSearchQuery ELSE @,
               !.excludedTagPanelExpanded =
                  IF has("excludedTagPanelExpanded")
                  THEN patch.excludedTagPanelExpanded ELSE @]
      n2 == IF has("excludedTags")
            THEN LET normalized == normalizeExcludedTags(n1.excludedTags)
                     n == [n1 EXCEPT
                             !.excludedTags = normalized,
                             !.activeTag = IF @ # NoTag /\ @ \in Range(normalized)
                                           THEN NoTag ELSE @]
                 IN saveExcludedTags(n, n.excludedTags)
            ELSE n1
      n3 == IF has("leaves") \/ has("excludedTags")
            THEN LET built == buildDerivedTags(n2.leaves, n2.excludedTags)
                 IN [n2 EXCEPT !.derivedTags = built.tags,
                               !.keywordIndex = built.keywordIndex]
            ELSE n2
  IN renderMedia(ensureSelection(n3))

handleExcludeTag(w, tagId) ==
  IF tagId = NoTag THEN w
  ELSE IF tagId \in Range(w.excludedTags)
  THEN IF w.activeTag = tagId THEN updateState(w, [activeTag |-> NoTag]) ELSE w
  ELSE IF w.activeTag = tagId
  THEN updateState(w, [excludedTags |-> Append(w.excludedTags, tagId),
                       activeTag |-> NoTag])
  ELSE updateState(w, [excludedTags |-> Append(w.excludedTags, tagId)])

\* handleRestoreExcludedTag removing by position, current.splice(
\* current.indexOf(tagId), 1), without looking whether the tag is there: a
\* position of -1 takes the last element away.
handleRestoreExcludedTag_Splice(w, tagId) ==
  LET current == w.excludedTags
      next == IF tagId \in Range(current)
              THEN SelectSeq(current, LAMBDA item : item # tagId)
              ELSE SubSeq(current, 1, Len(current) - 1)
  IN IF tagId = NoTag THEN w
     ELSE updateState(w, [excludedTags |-> next])

handleRestoreExcludedTag(w, tagId) ==
  IF tagId = NoTag THEN w
  ELSE IF tagId \notin Range(w.excludedTags) THEN w
  ELSE updateState(w, [excludedTags |->
                         SelectSeq(w.excludedTags, LAMBDA item : item # tagId)])

handleExcludedTagFormSubmit(w, value) ==
  LET tokens == extractKeywords(value)
      next == Dedup(w.excludedTags \o tokens)
      added == Len(next) # Len(Dedup(w.excludedTags))
  IN
  IF tokens = <<>> THEN w
  ELSE IF ~added THEN w
  ELSE IF w.activeTag # NoTag /\ w.activeTag \in Range(next)
  THEN updateState(w, [excludedTags |-> next, activeTag |-> NoTag])
  ELSE updateState(w, [excludedTags |-> next])

(***************************************************************************)
(* The order of the tags in the filter.  The label of a tag is             *)
(* humanizeKeyword of its id, as buildDerivedTags sets it.                 *)
(***************************************************************************)
toUpperChar(c) ==
  CASE c = "a" -> "A" [] c = "b" -> "B" [] c = "c" -> "C" [] c = "d" -> "D"
    [] c = "n" -> "N" [] c = "o" -> "O" [] c = "v" -> "V" [] OTHER -> c

\* keyword.replace(/(^|\s|[-_])(\p{L})/gu, ...): a letter at the start, or
\* after a blank, a hyphen or an underscore, becomes a capital.
humanizeKeyword(keyword) ==
  IF isStarKeyword(keyword) THEN keyword
  ELSE [i \in 1..Len(keyword) |->
          IF /\ keyword[i] \in LowerLetters \cup UpperLetters
             /\ (i = 1 \/ keyword[i - 1] \in Whitespace \cup {"-", "_"})
          THEN toUpperChar(keyword[i]) ELSE keyword[i]]

tagLabel(tag) == humanizeKeyword(tag.id)

isStarLabel(label) == isStarKeyword(trim(label))

isStarTag(tag) == isStarKeyword(tag.id) \/ isStarLabel(tagLabel(tag))

compareStarPriority(a, b) ==
  IF isStarTag(a) = isStarTag(b) THEN 0
  ELSE IF isStarTag(a) THEN -1 ELSE 1

getAlphabeticalGroup(label) ==
  IF isStarLabel(label) THEN -1
  ELSE IF label = <<>> THEN 1
  ELSE IF trim(label) # <<>>
          /\ Head(trim(label)) \in LowerLetters \cup UpperLetters
  THEN 0
  ELSE 1

\* The letters in the order of the alphabet.
Alphabet == <<"a", "b", "c", "d", "l", "n", "o", "p", "r", "t", "v">>

DigitValue(c) == CASE c = "0" -> 0 [] c = "1" -> 1 [] c = "2" -> 2

RECURSIVE DigitRun(_)
DigitRun(s) ==
  IF s # <<>> /\ Head(s) \in Digits THEN 1 + DigitRun(Tail(s)) ELSE 0

RECURSIVE NumberOf(_)
NumberOf(digits) ==
  IF digits = <<>> THEN 0
  ELSE 10 * NumberOf(SubSeq(digits, 1, Len(digits) - 1))
         + DigitValue(digits[Len(digits)])

\* The primary weight of a character that is not a digit: blanks, then
\* punctuation, then symbols, then (the digits, then) the letters, a capital
\* as its small letter (sensitivity: 'base').
CollationWeight(c) ==
  CASE c = " " -> 1 [] c = "_" -> 2 [] c = "-" -> 3 [] c = "*" -> 4
    [] OTHER -> 100 + (CHOOSE i \in 1..Len(Alphabet) :
                         Alphabet[i] = toLowerChar(c))

Sign(n) == IF n < 0 THEN -1 ELSE IF n > 0 THEN 1 ELSE 0

\* alphabeticalCollator.compare: new Intl.Collator(['en', 'zh-Hans'],
\* { sensitivity: 'base', numeric: true }).  A run of digits counts for its
\* number, and stands between the symbols and the letters.
RECURSIVE collatorCompare(_, _)
collatorCompare(a, b) ==
  IF a = <<>> /\ b = <<>> THEN 0
  ELSE IF a = <<>> THEN -1
  ELSE IF b = <<>> THEN 1
  ELSE IF Head(a) \in Digits /\ Head(b) \in Digits
  THEN LET na == DigitRun(a)
           nb == DigitRun(b)
           va == NumberOf(SubSeq(a, 1, na))
           vb == NumberOf(SubSeq(b, 1, nb))
       IN IF va # vb THEN Sign(va - vb)
          ELSE collatorCompare(SubSeq(a, na + 1, Len(a)),
                               SubSeq(b, nb + 1, Len(b)))
  ELSE IF Head(a) \in Digits THEN (IF CollationWeight(Head(b)) < 100 THEN 1 ELSE -1)
  ELSE IF Head(b) \in Digits THEN (IF CollationWeight(Head(a)) < 100 THEN -1 ELSE 1)
  ELSE IF CollationWeight(Head(a)) # CollationWeight(Head(b))
  THEN Sign(CollationWeight(Head(a)) - CollationWeight(Head(b)))
  ELSE collatorCompare(Tail(a), Tail(b))

\* compareTagsAlphabetically without the groups of getAlphabeticalGroup.
compareTagsAlphabetically_NoGroups(a, b) ==
  collatorCompare(tagLabel(a), tagLabel(b))

compareTagsAlphabetically(a, b) ==
  LET groupA == getAlphabeticalGroup(tagLabel(a))
      groupB == getAlphabeticalGroup(tagLabel(b))
  IN IF groupA # groupB THEN groupA - groupB
     ELSE collatorCompare(tagLabel(a), tagLabel(b))

compareTags(a, b, mode) ==
  LET starComparison == compareStarPriority(a, b) IN
  IF starComparison # 0 THEN starComparison
  ELSE IF mode = "frequency"
  THEN IF b.count # a.count THEN b.count - a.count
       ELSE compareTagsAlphabetically(a, b)
  ELSE compareTagsAlphabetically(a, b)

\* Array.prototype.sort, which is stable: the elements are put one by one,
\* each behind the elements that do not come after it.
RECURSIVE sortTags(_, _)
sortTags(tags, mode) ==
  IF tags = <<>> THEN <<>>
  ELSE
    LET front == sortTags(SubSeq(tags, 1, Len(tags) - 1), mode)
        last == tags[Len(tags)]
        before == {i \in 1..Len(front) : compareTags(last, front[i], mode) < 0}
        at == IF before = {} THEN Len(front) + 1
              ELSE CHOOSE i \in before : \A j \in before : i <= j
    IN SubSeq(front, 1, at - 1) \o <<last>> \o SubSeq(front, at, Len(front))

\* String.prototype.includes
includes(text, query) ==
  \E i \in 1..(Len(text) - Len(query) + 1) :
    SubSeq(text, i, i + Len(query) - 1) = query

\* The filter callback of getRenderableTags.
matchesTagSearch(tag, query) ==
  IF query = <<>> THEN TRUE
  ELSE includes(toLowerCase(tagLabel(tag)), query) \/ includes(tag.id, query)

\* getRenderableTags: the list it returns, and currentState.derivedTags as
\* the call leaves it (filter makes a new array, which sort then orders).
getRenderableTags(w) ==
  LET sortMode == normalizeTagSortMode(w.tagSortMode)
      query == toLowerCase(trim(w.tagSearchQuery))
      filtered == SelectSeq(w.derivedTags,
                            LAMBDA tag : matchesTagSearch(tag, query))
  IN [tags |-> sortTags(filtered, sortMode), derivedTags |-> w.derivedTags]

\* The change listener of the sort select of createTagFilterControls.
sortSelectChange(w, targetValue) ==
  LET value == normalizeTagSortMode(targetValue) IN
  IF value = w.tagSortMode THEN w
  ELSE updateState(w, [tagSortMode |-> value])

handleTagSearchFormSubmit(w, inputValue) ==
  LET w1 == [w EXCEPT !.tagSearchDraft = inputValue] IN
  IF w1.tagSearchDraft = w1.tagSearchQuery THEN w1
  ELSE updateState(w1, [tagSearchQuery |-> w1.tagSearchDraft])

\* The click listeners of the header of createExcludedTagSettings.
excludedTagPanelToggle(w) ==
  updateState(w, [excludedTagPanelExpanded |-> ~w.excludedTagPanelExpanded])

\* The continuation of mediaApi.getRootTags() at load and of
\* mediaApi.removeRootTag() in handleSavedTagRemoval.
savedTagsResult(w, tags) == updateState(w, [savedTags |-> tags])

\* The click handler that createFilterButton installs.
filterButtonClick(w, tagId) ==
  IF tagId = NoTag THEN updateState(w, [activeTag |-> NoTag])
  ELSE IF w.activeTag = tagId THEN updateState(w, [activeTag |-> NoTag])
  ELSE updateState(w, [activeTag |-> tagId])

\* The continuation of the select-root click leaving the active tag as it
\* is.
selectRootResult_KeepFilter(w, result) ==
  updateState(w, [leaves |-> result,
                  selectedPath |-> IF result # <<>> THEN result[1].path ELSE NoPath])

\* The continuation of the select-root click after mediaApi.selectRoot().
selectRootResult(w, result) ==
  updateState(w, [leaves |-> result,
                  selectedPath |-> IF result # <<>> THEN result[1].path ELSE NoPath,
                  activeTag |-> NoTag])

(***************************************************************************)
(* The page fetcher: what mediaApi.fetchNextMediaChunk(path, offset) can   *)
(* answer.  It serves a contiguous slice of the listing from offset on, of *)
(* a length it chooses, and reports a total, or none.                      *)
(***************************************************************************)
PageLengths(path, offset) == 0..Min(MaxPage, Max(0, DirSize(path) - offset))

ReportedTotals(path) == {NoTotal, 0, DirSize(path)}

\* normalizeMediaChunkResult, on a result [files, totalCount].
normalizeMediaChunkResult(result) ==
  [files |-> result.files,
   totalCount |-> IF result.totalCount >= 0 THEN result.totalCount ELSE NoTotal]

\* The .then callback of fetchNextMediaChunk, past its staleness check.
applyMediaChunk(w, rid, result) ==
  LET normalized == normalizeMediaChunkResult(result)
      session == w.sess[rid]
      normalizedTotal == Max(normalized.totalCount, Len(session.items))
      w1 == IF normalized.totalCount # NoTotal /\ normalized.totalCount >= 0
               /\ normalizedTotal > session.totalCount
            THEN [w EXCEPT !.sess[rid].totalCount = normalizedTotal]
            ELSE w
      signalAborted == IF w1.ctrl # 0 THEN w1.aborted[w1.ctrl] ELSE FALSE
  IN IF normalized.files = <<>> THEN w1
     ELSE IF signalAborted THEN w1
     ELSE renderMediaChunk(w1, rid, normalized.files, signalAborted)

\* The .then callback without its staleness check.
fetchResolved_NoStalenessCheck(w, rid, requestId, result) ==
  applyMediaChunk(w, rid, result)

\* The .then callback of fetchNextMediaChunk.
fetchResolved(w, rid, requestId, result) ==
  IF rid # w.cur \/ requestId # w.sess[rid].requestId THEN w
  ELSE applyMediaChunk(w, rid, result)

\* The .catch callback of fetchNextMediaChunk: the error is logged, and
\* nothing of the session is changed.
fetchRejected(w, rid) == w

\* The .finally callback of fetchNextMediaChunk leaving the guard as it is.
fetchSettled_KeepGuard(w, rid) == w

\* The .finally callback of fetchNextMediaChunk.
fetchSettled(w, rid) ==
  IF w.sess[rid].loadingPromise = "fetch"
  THEN [w EXCEPT !.sess[rid].loadingPromise = "none"]
  ELSE w

(***************************************************************************)
(* The main process: listMediaFiles of directoryScanner.js.  A value of    *)
(* options.offset or options.limit is what Number() makes of it: NaN, an   *)
(* infinity, or a finite number, kept here as a count of halves so that    *)
(* Math.floor has something to cut.                                        *)
(***************************************************************************)
NoRequest == [path |-> NoPath]
NoResult == [files |-> <<>>]

NonFinite == {"NaN", "Infinity", "-Infinity"}

OptionValues ==
  [kind : {"finite"}, halves : -2..MaxOption]
    \cup [kind : NonFinite, halves : {0}]

isFinite(value) == value.kind = "finite"

\* Math.floor of a finite number that is not negative.
floor(value) == value.halves \div 2

normalizeOffset(value) ==
  IF ~isFinite(value) \/ value.halves < 0 THEN 0 ELSE floor(value)

\* fallback is an integer here: total - offset.
normalizeLimit(value, fallback) ==
  LET normalizedFallback == Max(fallback, 0) IN
  IF ~isFinite(value) \/ value.halves <= 0 THEN normalizedFallback
  ELSE floor(value)

Directories == {"/a", "/b", "/c", "/d"}

\* fs.readdir(directoryPath, {withFileTypes: true}): the media files of the
\* directory in listing order, with a file of another kind and a
\* subdirectory after each.
RECURSIVE readdir(_, _)
readdir(directoryPath, n) ==
  IF n = 0 THEN <<>>
  ELSE readdir(directoryPath, n - 1)
         \o << [isFile |-> TRUE, media |-> TRUE,
                 file |-> FileAt(directoryPath, n - 1)],
               [isFile |-> TRUE, media |-> FALSE,
                 file |-> FileAt(directoryPath, n - 1)],
               [isFile |-> FALSE, media |-> TRUE,
                 file |-> FileAt(directoryPath, n - 1)] >>

listMediaFiles(directoryPath, options) ==
  IF directoryPath = NoPath \/ directoryPath \notin Directories
  THEN [files |-> <<>>, total |-> 0, offset |-> 0, nextOffset |-> 0,
        hasMore |-> FALSE, error |-> directoryPath # NoPath]
  ELSE
    LET entries == readdir(directoryPath, DirSize(directoryPath))
        kept == SelectSeq(entries, LAMBDA entry : entry.isFile /\ entry.media)
        mediaFiles == [i \in 1..Len(kept) |-> kept[i].file]
        total == Len(mediaFiles)
        offset == normalizeOffset(options.offset)
        limit == normalizeLimit(options.limit, total - offset)
        start == Min(offset, total)
        end == IF limit > 0 THEN Min(start + limit, total) ELSE total
    IN [files |-> SubSeq(mediaFiles, start + 1, end), total |-> total,
        offset |-> start, nextOffset |-> end, hasMore |-> end < total,
        error |-> FALSE]

(***************************************************************************)
(* The main process: the saved root directories of preferences.js.  A path *)
(* is a string; an entry holds a path and the time it was added, which is  *)
(* either the one found in the file or the time of the call.               *)
(***************************************************************************)
MaxPersists == 2

RootPaths == { <<"r">>, <<" ", "r">>, <<"s">> }

Entry(path, addedAt) == [path |-> path, addedAt |-> addedAt]

\* What preferences.json can hold under rootTags: nothing, or entries with
\* paths that repeat, that differ in blanks only, that are empty, and with
\* and without a time.
RawStores ==
  { <<>>,
    << Entry(<<" ", "r">>, "stored"), Entry(<<"r">>, "none"),
       Entry(<<>>, "stored"), Entry(<<"r">>, "stored") >> }

RECURSIVE sanitiseTags(_, _)
sanitiseTags(tags, normalised) ==
  IF tags = <<>> THEN normalised
  ELSE
    LET tag == Head(tags)
        trimmedPath == trim(tag.path)
    IN IF trimmedPath = <<>>
          \/ \E i \in 1..Len(normalised) : normalised[i].path = trimmedPath
       THEN sanitiseTags(Tail(tags), normalised)
       ELSE sanitiseTags(
              Tail(tags),
              Append(normalised,
                     Entry(trimmedPath,
                           IF tag.addedAt = "none" THEN "now" ELSE tag.addedAt)))

sanitiseState(raw) == [rootTags |-> sanitiseTags(raw.rootTags, <<>>)]

\* The preferences module as one value.
Prefs == [state |-> state, storeFile |-> storeFile, persists |-> persists]

\* persist() up to its first await, of fs.promises.mkdir.
persist(p) == [p EXCEPT !.persists = Append(@, [stage |-> "mkdir",
                                                payload |-> <<>>])]

\* persist() from the return of mkdir to its second await, of writeFile.
persistMkdirDone(p, i) ==
  [p EXCEPT !.persists[i] = [stage |-> "write", payload |-> p.state.rootTags]]

\* persist() from the return of writeFile to its end.
persistWriteDone(p, i) ==
  [p EXCEPT !.storeFile = p.persists[i].payload,
            !.persists = SubSeq(@, 1, i - 1) \o SubSeq(@, i + 1, Len(@))]

getRootTags(p) == p.state.rootTags

\* recordRootTag without its look for an entry of the path.
recordRootTag_NoFind(p, rootPath) ==
  IF rootPath = <<>> THEN p
  ELSE persist([p EXCEPT !.state.rootTags = Append(@, Entry(rootPath, "now"))])

\* recordRootTag up to its await of persist().
recordRootTag(p, rootPath) ==
  IF rootPath = <<>> THEN p
  ELSE IF \E i \in 1..Len(p.state.rootTags) : p.state.rootTags[i].path = rootPath
  THEN p
  ELSE persist([p EXCEPT !.state.rootTags = Append(@, Entry(rootPath, "now"))])

\* removeRootTag up to its await of persist().
removeRootTag(p, rootPath) ==
  IF rootPath = <<>> THEN p
  ELSE
    LET beforeLength == Len(p.state.rootTags)
        p1 == [p EXCEPT !.state.rootTags =
                 SelectSeq(@, LAMBDA tag : tag.path # rootPath)]
    IN IF Len(p1.state.rootTags) # beforeLength THEN persist(p1) ELSE p1

(***************************************************************************)
(* The tasks of the event loop.                                            *)
(***************************************************************************)
CanStartSession == mediaSessionSequence < sessionLimit

SelectRoot ==
  \E result \in ScanResults :
    /\ result = <<>> \/ CanStartSession
    /\ Commit(selectRootResult(World, result))

DirectoryClick ==
  /\ CanStartSession
  /\ \E i \in 1..Len(getVisibleLeaves(World)) :
       Commit(updateState(World, [selectedPath |-> getVisibleLeaves(World)[i].path]))

FilterClick ==
  /\ CanStartSession
  /\ leaves # <<>>
  /\ \E tagId \in {NoTag} \cup {derivedTags[i].id : i \in 1..Len(derivedTags)} :
       Commit(filterButtonClick(World, tagId))

ExcludeTag ==
  /\ CanStartSession
  /\ \E tagId \in Keywords :
       Commit(handleExcludeTag(World, tagId))

RestoreExcludedTag ==
  /\ CanStartSession
  /\ \E tagId \in Keywords :
       Commit(handleRestoreExcludedTag(World, tagId))

ExcludedTagFormSubmit ==
  /\ CanStartSession
  /\ \E value \in FormInputs :
       Commit(handleExcludedTagFormSubmit(World, value))

SortSelectChange ==
  /\ CanStartSession
  /\ \E value \in {"alphabetical", "frequency", "other"} :
       Commit(sortSelectChange(World, value))

TagSearchFormSubmit ==
  /\ CanStartSession
  /\ \E value \in SearchInputs :
       Commit(handleTagSearchFormSubmit(World, value))

ExcludedTagPanelToggle ==
  /\ CanStartSession
  /\ Commit(excludedTagPanelToggle(World))

SavedTagsResult ==
  /\ CanStartSession
  /\ \E tags \in SavedTagLists :
       Commit(savedTagsResult(World, tags))

ClickCard ==
  \E i \in 1..Len(grid) :
    Commit(openMediaViewerAtIndex(World, grid[i].index))

Step ==
  \E delta \in {-1, 1} :
    Commit(stepMediaViewer(World, delta))

Close == Commit(closeMediaViewer(World, FALSE))

RenderFrame ==
  \E rid \in SessionIds :
    /\ render[rid].waiting
    /\ Commit(renderMediaIncrementally(World, rid, TRUE))

\* The settlement of the outstanding page request of session rid with a
\* page of n files and a reported total.
pageArrives(w, rid, n, total) ==
  LET offset == Head(w.inflight[rid])
      path == w.sess[rid].leafPath
      result == [files |-> DirSlice(path, offset, n), totalCount |-> total]
  IN fetchSettled(
       fetchResolved([w EXCEPT !.inflight[rid] = Tail(@)], rid, rid, result),
       rid)

\* The settlement of the outstanding page request of session rid with a
\* rejection.
pageFails(w, rid) ==
  fetchSettled(fetchRejected([w EXCEPT !.inflight[rid] = Tail(@)], rid), rid)

FetchSucceeds ==
  \E rid \in SessionIds :
    /\ inflight[rid] # <<>>
    /\ \E n \in PageLengths(sessions[rid].leafPath, Head(inflight[rid])),
          total \in ReportedTotals(sessions[rid].leafPath) :
         Commit(pageArrives(World, rid, n, total))

FetchFails ==
  \E rid \in SessionIds :
    /\ inflight[rid] # <<>>
    /\ Commit(pageFails(World, rid))

\* The list-media-files handler of the main process.
ListMediaFiles ==
  \E directoryPath \in Directories \cup {NoPath, "/x"},
     offset \in OptionValues, limit \in OptionValues :
    /\ listRequest' = [path |-> directoryPath, offset |-> offset,
                        limit |-> limit]
    /\ listResult' = listMediaFiles(directoryPath,
                                    [offset |-> offset, limit |-> limit])
    /\ UNCHANGED <<sessionLimit, fetchApiAvailable, leaves, selectedPath,
                   derivedTags, keywordIndex, activeTag, excludedTags,
                   storedExcludedTags, mediaSessionSequence, mediaSession,
                   sessions, mediaViewerState, mediaRenderAbortController,
                   aborted, render, inflight, grid, savedTags, tagSortMode,
                   tagSearchQuery, tagSearchDraft, excludedTagPanelExpanded,
                   prefsVars, loaderVars>>

(***************************************************************************)
(* The worker image loader of the renderer and the image worker.  A load   *)
(* call is known by its number; the promise it returns holds the id the    *)
(* call drew (0 when it drew none), the signal it was given, and the calls *)
(* of resolve and reject made on it, in order.                             *)
(***************************************************************************)
MaxLoads == 2

LoadCalls == 1..MaxLoads

NoPromise == [id |-> 0, signal |-> "none", settled |-> <<>>]

\* The loader and the worker as one value.
Loader == [main |-> imageLoader, worker |-> imageWorker,
           toWorker |-> toWorker, toMain |-> toMain]

\* The call whose promise the pending entry of the id settles.
callOf(l, id) == CHOOSE k \in LoadCalls : l.main.promises[k].id = id

settle(l, k, outcome) ==
  [l EXCEPT !.main.promises[k].settled = Append(@, outcome)]

\* load(url, signal): url is "" or an address, signal is "none" for no
\* signal, "live", or "aborted" for a signal aborted before the call.
load(l, url, signal) ==
  LET k == l.main.calls + 1
      l1 == [l EXCEPT !.main.calls = k,
                      !.main.promises[k] = [id |-> 0, signal |-> signal,
                                            settled |-> <<>>]]
  IN
  IF url = "" THEN settle(l1, k, "Error")
  ELSE IF signal = "aborted" THEN settle(l1, k, "AbortError")
  ELSE
    LET id == l.main.sequence + 1 IN
    [l1 EXCEPT !.main.sequence = id,
               !.main.promises[k].id = id,
               !.main.listening = IF signal = "live" THEN @ \cup {k} ELSE @,
               !.main.pending = @ \cup {id},
               !.toWorker = Append(@, [id |-> id, type |-> "load"])]

\* abortHandler leaving the pending entry where it is.
abortHandler_KeepPending(l, k) ==
  LET id == l.main.promises[k].id IN
  settle([l EXCEPT !.toWorker = Append(@, [id |-> id, type |-> "cancel"])],
         k, "AbortError")

\* The abortHandler of the call.
abortHandler(l, k) ==
  LET id == l.main.promises[k].id IN
  settle([l EXCEPT !.toWorker = Append(@, [id |-> id, type |-> "cancel"]),
                   !.main.pending = @ \ {id}],
         k, "AbortError")

\* The signal of the call is aborted: its abort listeners run, once.
abortSignal(l, k) ==
  LET l1 == [l EXCEPT !.main.promises[k].signal = "aborted",
                      !.main.listening = @ \ {k}]
  IN IF k \in l.main.listening THEN abortHandler(l1, k) ELSE l1

\* The message listener of the loader; data holds the id and what the
\* worker sent: "bitmap", "buffer", "aborted", "error".
loaderOnMessage(l, data) ==
  IF data.id \notin l.main.pending
  THEN IF data.kind = "bitmap"
       THEN [l EXCEPT !.main.closed = @ \cup {data.id}] ELSE l
  ELSE
    LET k == callOf(l, data.id)
        l1 == [l EXCEPT !.main.pending = @ \ {data.id},
                        !.main.listening = @ \ {k}]
    IN CASE data.kind = "aborted" -> settle(l1, k, "AbortError")
         [] data.kind = "error" -> settle(l1, k, "Error")
         [] data.kind = "bitmap" -> settle(l1, k, "bitmap")
         [] data.kind = "buffer" -> settle(l1, k, "blob")
         [] OTHER -> settle(l1, k, "Error")

RECURSIVE rejectAll(_, _)
rejectAll(l, ids) ==
  IF ids = {} THEN l
  ELSE LET id == CHOOSE i \in ids : TRUE
           k == callOf(l, id)
       IN rejectAll(settle([l EXCEPT !.main.listening = @ \ {k}],
                           k, "AbortError"),
                    ids \ {id})

\* dispose(): the worker is terminated and takes no further step.
dispose(l) ==
  [rejectAll(l, l.main.pending) EXCEPT !.main.pending = {},
                                       !.main.disposed = TRUE]

cancelTask(l, id) ==
  IF id \in l.worker.activeTasks
  THEN [l EXCEPT !.worker.controllerAborted = @ \cup {id},
                 !.worker.activeTasks = @ \ {id}]
  ELSE l

\* The message listener of the worker, up to its first await.
workerOnMessage(l, data) ==
  IF data.type = "cancel" THEN cancelTask(l, data.id)
  ELSE
    LET l1 == IF data.id \in l.worker.activeTasks
              THEN cancelTask(l, data.id) ELSE l
    IN [l1 EXCEPT !.worker.controllerAborted = @ \ {data.id},
                  !.worker.activeTasks = @ \cup {data.id},
                  !.worker.stage[data.id] = "fetch"]

postToMain(l, id, kind) ==
  [l EXCEPT !.toMain = Append(@, [id |-> id, kind |-> kind]),
            !.worker.stage[id] = "done"]

\* The listener of the worker from the settlement of fetch and of
\* response.blob() to its next await or its end; result is "ok" or
\* "failed", and an aborted controller makes both reject.
workerFetchSettled(l, id, result) ==
  LET l1 == [l EXCEPT !.worker.activeTasks = @ \ {id}] IN
  IF id \in l.worker.controllerAborted THEN postToMain(l1, id, "aborted")
  ELSE IF result = "failed" THEN postToMain(l1, id, "error")
  ELSE [l1 EXCEPT !.worker.stage[id] = "decode"]

\* The listener of the worker from the settlement of createImageBitmap or
\* of blob.arrayBuffer() to its end.
workerDecodeSettled(l, id, result) ==
  IF result = "failed" THEN postToMain(l, id, "error")
  ELSE postToMain(l, id, result)

CommitLoader(l) ==
  /\ imageLoader' = l.main
  /\ imageWorker' = l.worker
  /\ toWorker' = l.toWorker
  /\ toMain' = l.toMain
  /\ UNCHANGED <<rendererVars, listRequest, listResult, prefsVars>>

Load ==
  /\ imageLoader.calls < MaxLoads
  /\ ~imageLoader.disposed
  /\ \E url \in {"", "u"}, signal \in {"none", "live", "aborted"} :
       CommitLoader(load(Loader, url, signal))

AbortSignal ==
  \E k \in 1..imageLoader.calls :
    /\ imageLoader.promises[k].signal = "live"
    /\ CommitLoader(abortSignal(Loader, k))

Dispose ==
  /\ ~imageLoader.disposed
  /\ CommitLoader(dispose(Loader))

LoaderReceives ==
  /\ toMain # <<>>
  /\ CommitLoader(loaderOnMessage([Loader EXCEPT !.toMain = Tail(@)],
                                  Head(toMain)))

WorkerReceives ==
  /\ toWorker # <<>>
  /\ ~imageLoader.disposed
  /\ CommitLoader(workerOnMessage([Loader EXCEPT !.toWorker = Tail(@)],
                                  Head(toWorker)))

WorkerFetchSettles ==
  \E id \in LoadCalls, result \in {"ok", "failed"} :
    /\ imageWorker.stage[id] = "fetch"
    /\ ~imageLoader.disposed
    /\ CommitLoader(workerFetchSettled(Loader, id, result))

WorkerDecodeSettles ==
  \E id \in LoadCalls, result \in {"bitmap", "buffer", "failed"} :
    /\ imageWorker.stage[id] = "decode"
    /\ ~imageLoader.disposed
    /\ CommitLoader(workerDecodeSettled(Loader, id, result))

CommitPrefs(p) ==
  /\ state' = p.state
  /\ storeFile' = p.storeFile
  /\ persists' = p.persists
  /\ UNCHANGED <<rendererVars, listRequest, listResult, loaderVars>>

\* The select-root handler of the main process, past the scan.
RecordRootTag ==
  \E rootPath \in RootPaths \cup {<<>>} :
    /\ Len(recordRootTag(Prefs, rootPath).persists) <= MaxPersists
    /\ CommitPrefs(recordRootTag(Prefs, rootPath))

\* The remove-root-tag handler of the main process.
RemoveRootTag ==
  \E rootPath \in RootPaths \cup {<<>>} :
    /\ Len(removeRootTag(Prefs, rootPath).persists) <= MaxPersists
    /\ CommitPrefs(removeRootTag(Prefs, rootPath))

PersistMkdirDone ==
  \E i \in 1..Len(persists) :
    /\ persists[i].stage = "mkdir"
    /\ CommitPrefs(persistMkdirDone(Prefs, i))

PersistWriteDone ==
  \E i \in 1..Len(persists) :
    /\ persists[i].stage = "write"
    /\ CommitPrefs(persistWriteDone(Prefs, i))

InitRenderer(limit, stored) ==
  /\ sessionLimit = limit
  /\ fetchApiAvailable \in BOOLEAN
  /\ leaves = <<>>
  /\ selectedPath = NoPath
  /\ derivedTags = <<>>
  /\ keywordIndex = <<>>
  /\ activeTag = NoTag
  /\ storedExcludedTags \in stored
  /\ excludedTags = normalizeExcludedTags(storedExcludedTags)
  /\ mediaSessionSequence = 0
  /\ mediaSession = 0
  /\ sessions = [rid \in SessionIds |-> createEmptyMediaSession]
  /\ mediaViewerState = createMediaViewerState
  /\ mediaRenderAbortController = 0
  /\ aborted = [rid \in SessionIds |-> FALSE]
  /\ render = [rid \in SessionIds |-> NoRender]
  /\ inflight = [rid \in SessionIds |-> <<>>]
  /\ grid = <<>>
  /\ savedTags = <<>>
  /\ tagSortMode = "alphabetical"
  /\ tagSearchQuery = <<>>
  /\ tagSearchDraft = <<>>
  /\ excludedTagPanelExpanded = FALSE
  /\ listRequest = NoRequest
  /\ listResult = NoResult

\* initPreferences, on what preferences.json holds.
InitPreferences(raws) ==
  /\ storeFile \in raws
  /\ state = sanitiseState([rootTags |-> storeFile])
  /\ persists = <<>>

\* createWorkerImageLoader, and the worker script at load.
InitLoader ==
  /\ imageLoader = [sequence |-> 0, calls |-> 0,
                    promises |-> [k \in LoadCalls |-> NoPromise],
                    pending |-> {}, listening |-> {}, closed |-> {},
                    disposed |-> FALSE]
  /\ imageWorker = [activeTasks |-> {}, controllerAborted |-> {},
                    stage |-> [id \in LoadCalls |-> "none"]]
  /\ toWorker = <<>>
  /\ toMain = <<>>

InitWith(limit, stored) ==
  /\ InitRenderer(limit, stored)
  /\ InitPreferences({<<>>})
  /\ InitLoader

Init == InitWith(MaxSessions, StoredLists)

Next ==
  \/ SelectRoot
  \/ DirectoryClick
  \/ FilterClick
  \/ ExcludeTag
  \/ RestoreExcludedTag
  \/ ExcludedTagFormSubmit
  \/ SortSelectChange
  \/ TagSearchFormSubmit
  \/ ExcludedTagPanelToggle
  \/ SavedTagsResult
  \/ ClickCard
  \/ Step
  \/ Close
  \/ RenderFrame
  \/ FetchSucceeds
  \/ FetchFails

Spec == Init /\ [][Next]_vars

\* The media session and the viewer, with the tag filters left alone.
SessionNext ==
  \/ SelectRoot
  \/ DirectoryClick
  \/ ClickCard
  \/ Step
  \/ Close
  \/ RenderFrame
  \/ FetchSucceeds
  \/ FetchFails

SessionInit == InitWith(MaxSessions, {<<>>})

SessionSpec == SessionInit /\ [][SessionNext]_vars

\* The tag state, with the viewer closed and the page requests unanswered.
TagNext ==
  \/ SelectRoot
  \/ DirectoryClick
  \/ FilterClick
  \/ ExcludeTag
  \/ RestoreExcludedTag
  \/ ExcludedTagFormSubmit

TagInit == InitWith(MaxTagSessions, StoredLists)

TagSpec == TagInit /\ [][TagNext]_vars

\* The session and the viewer with a page fetcher that is there and always
\* answers, each time with a page that is not empty while the listing has
\* files past the offset asked for.  Frames and answers are not withheld for
\* ever.
HappyFetch ==
  \E rid \in SessionIds :
    /\ inflight[rid] # <<>>
    /\ \E n \in PageLengths(sessions[rid].leafPath, Head(inflight[rid])),
          total \in ReportedTotals(sessions[rid].leafPath) :
         /\ n >= 1 \/ PageLengths(sessions[rid].leafPath, Head(inflight[rid])) = {0}
         /\ Commit(pageArrives(World, rid, n, total))

LiveNext ==
  \/ SelectRoot
  \/ DirectoryClick
  \/ ClickCard
  \/ Step
  \/ Close
  \/ RenderFrame
  \/ HappyFetch

LiveInit == SessionInit /\ fetchApiAvailable

LiveSpec ==
  /\ LiveInit
  /\ [][LiveNext]_vars
  /\ WF_vars(RenderFrame)
  /\ WF_vars(HappyFetch)

\* The media session under the state updates of the tag controls and of the
\* saved directories.
FrameNext ==
  \/ SelectRoot
  \/ DirectoryClick
  \/ SortSelectChange
  \/ TagSearchFormSubmit
  \/ ExcludedTagPanelToggle
  \/ SavedTagsResult
  \/ ClickCard
  \/ RenderFrame
  \/ FetchSucceeds

FrameSpec == SessionInit /\ [][FrameNext]_vars

\* The main process answering list-media-files calls.
\* The tag filter at work: scans of a few leaves whose names share
\* keywords, with and without stars and digits, and then changes of the
\* sort mode and of the search query.
MaxSortLeaves == 3
MaxSortSessions == 3

SortNames ==
  { <<"a", "b", " ", "1", "a", " ", "*">>,
    <<"1", "a", " ", "c", "d", " ", "*", "*">>,
    <<"c", "d", " ", "a", "b", " ", "*">>,
    <<"c", "d", " ", "A", "b", " ", "*", "*">> }

SortPaths == <<"/p1", "/p2", "/p3", "/p4", "/p5", "/p6">>

RECURSIVE SortScansOfLen(_)
SortScansOfLen(n) ==
  IF n = 0 THEN {<<>>}
  ELSE {Append(scan, [path |-> SortPaths[n], displayPath |-> name,
                      mediaFiles |-> 0, hint |-> NoHint]) :
          scan \in SortScansOfLen(n - 1), name \in SortNames}

SortScans == UNION {SortScansOfLen(n) : n \in 0..MaxSortLeaves}

\* One scan in a behaviour: into the empty list of the start.
ScanSorted ==
  /\ CanStartSession
  /\ leaves = <<>>
  /\ \E result \in SortScans :
       Commit(selectRootResult(World, result))

SortNext ==
  \/ ScanSorted
  \/ SortSelectChange
  \/ TagSearchFormSubmit

SortInit == InitWith(MaxSortSessions, {<<>>}) /\ fetchApiAvailable

SortSpec == SortInit /\ [][SortNext]_vars

\* The image loader and its worker alone.
LoaderNext ==
  \/ Load
  \/ AbortSignal
  \/ Dispose
  \/ LoaderReceives
  \/ WorkerReceives
  \/ WorkerFetchSettles
  \/ WorkerDecodeSettles

LoaderInit == InitWith(1, {<<>>}) /\ fetchApiAvailable

LoaderSpec == LoaderInit /\ [][LoaderNext]_vars

\* The preferences alone.
PrefsNext ==
  \/ RecordRootTag
  \/ RemoveRootTag
  \/ PersistMkdirDone
  \/ PersistWriteDone

PrefsInit ==
  /\ InitRenderer(1, {<<>>})
  /\ fetchApiAvailable
  /\ InitPreferences(RawStores)
  /\ InitLoader

PrefsSpec == PrefsInit /\ [][PrefsNext]_vars

ListNext == ListMediaFiles

ListInit == SessionInit /\ fetchApiAvailable

ListSpec == ListInit /\ [][ListNext]_vars

\* The tokenizer at work: scans that report one leaf, of any short name or
\* of one of a few longer ones.
NameChars == {"a", "B", "n", "o", "1", "*", " "}

RECURSIVE NamesOfLen(_)
NamesOfLen(n) ==
  IF n = 0 THEN {<<>>}
  ELSE {Append(name, c) : name \in NamesOfLen(n - 1), c \in NameChars}

LongNames ==
  { <<"V", "o", "l">>, <<"v", "o", "l", "2">>, <<"v", "o", "l", "a">>,
    <<"p", "a", "r", "t">>, <<"p", "a", "r", "t", "1", "0">>,
    <<"n", "o", "1", "a">>, <<"*", "*", "a", "b">>,
    <<"*", "*", " ", "A", "b", " ", "n", "o", "1", " ", "a", "B", "-", "1">> }

Names == UNION {NamesOfLen(n) : n \in 0..MaxNameLen} \cup LongNames

NamedLeaf(name) ==
  [path |-> "/n", displayPath |-> name, mediaFiles |-> 0, hint |-> NoHint]

ScanNamed ==
  /\ CanStartSession
  /\ \E name \in Names :
       Commit(selectRootResult(World, <<NamedLeaf(name)>>))

TokenizerNext == ScanNamed

\* One scan in a behaviour.
TokenizerInit == InitWith(1, {<<>>}) /\ fetchApiAvailable

TokenizerSpec == TokenizerInit /\ [][TokenizerNext]_vars

(***************************************************************************)
(* Properties of the media session.                                        *)
(***************************************************************************)
\* The sessions other than the live one that still have a page request
\* outstanding.
StaleSessions ==
  {rid \in SessionIds : rid # mediaSession /\ inflight[rid] # <<>>}

\* C1: a page that arrives for a session that is no longer the live one is
\* dropped: whatever the page holds, the live session (its items, total and
\* pendingIndex), the viewer and the grid stay as they are, and the items of
\* the session the page was requested for do not grow.
C1_StaleResponseDropped ==
  \A rid \in StaleSessions :
    \A n \in PageLengths(sessions[rid].leafPath, Head(inflight[rid])),
       total \in ReportedTotals(sessions[rid].leafPath) :
      LET w1 == pageArrives(World, rid, n, total) IN
        /\ w1.cur = mediaSession
        /\ w1.sess[mediaSession] = sessions[mediaSession]
        /\ w1.viewer = mediaViewerState
        /\ w1.grid = grid
        /\ w1.sess[rid].items = sessions[rid].items

\* A second session is live while the page request of an earlier session is
\* still outstanding, and a non-empty page can arrive for it.
C1_Witness ==
  /\ mediaSession # 0
  /\ \E rid \in StaleSessions :
       /\ rid # 0
       /\ PageLengths(sessions[rid].leafPath, Head(inflight[rid])) # {0}

\* C2: a session never has more than one page request outstanding.
C2_OneFetchInFlight ==
  \A rid \in SessionIds : Len(inflight[rid]) <= 1

\* A page is pending in the viewer, requested while the one page request of
\* the session was already outstanding for the read-ahead.
C2_Witness ==
  /\ Len(inflight[mediaSession]) = 1
  /\ sessions[mediaSession].pendingIndex # NoIndex
  /\ sessions[mediaSession].items # <<>>

\* C3: every outstanding page request carries the number of items its
\* session holds, and the items of a session are the files of its directory
\* in listing order from the first on, none twice and none left out.
C3_MonotonicOffsets ==
  \A rid \in SessionIds :
    /\ \A i \in 1..Len(inflight[rid]) :
         inflight[rid][i] = Len(sessions[rid].items)
    /\ \A i \in 1..Len(sessions[rid].items) :
         sessions[rid].items[i] = FileAt(sessions[rid].leafPath, i - 1)

\* The live session holds items from an earlier page and has asked for the
\* next page, past its first items and short of the end of the listing.
C3_Witness ==
  /\ sessions[mediaSession].items # <<>>
  /\ inflight[mediaSession] = <<Len(sessions[mediaSession].items)>>
  /\ Len(sessions[mediaSession].items)
       < DirSize(sessions[mediaSession].leafPath)

Waiting ==
  /\ mediaViewerState.isOpen
  /\ sessions[mediaSession].pendingIndex # NoIndex

\* C5 as stated: when the viewer waits for an index and every page request
\* is answered with a page that is not empty, the wait ends: unless the
\* viewer is closed or another directory selected first, the item is
\* delivered, however many pages lie before it.
C5_AsStated == Waiting ~> ~Waiting

\* The live session rid, with the viewer closed, holds fewer items than its
\* directory has files.
Incomplete(rid) ==
  /\ mediaSession = rid
  /\ ~mediaViewerState.isOpen
  /\ sessions[rid].totalCount > 0
  /\ Len(sessions[rid].items) < DirSize(sessions[rid].leafPath)

\* C6 as stated: after a directory is selected and every page request is
\* answered with a page that is not empty, the session pages on by itself
\* until it holds every file of the directory.
C6_AsStated ==
  \A rid \in SessionIds \ {0} : Incomplete(rid) ~> ~Incomplete(rid)

C8_AsStated ==
  inflight[mediaSession] # <<>> =>
    LET w1 == pageFails(World, mediaSession) IN
      /\ \A delta \in {-1, 1} :
           stepMediaViewer(w1, delta).inflight[mediaSession] = <<>>
      /\ \A i \in 1..Len(w1.grid) :
           openMediaViewerAtIndex(w1, w1.grid[i].index).inflight[mediaSession]
             = <<>>

\* C12: whenever the viewer is open it is bound to the current media
\* session, and the item it shows is the item of that session at the index
\* of the viewer; the binding never diverges, so no step and no opening
\* shows an item of another session.
C12_ViewerBoundToSession ==
  mediaViewerState.isOpen =>
    /\ mediaSession # 0
    /\ mediaViewerState.sessionRequestId = sessions[mediaSession].requestId
    /\ mediaViewerState.currentFile # NoFile =>
         /\ mediaViewerState.index + 1
              \in 1..Len(sessions[mediaSession].items)
         /\ mediaViewerState.currentFile
              = sessions[mediaSession].items[mediaViewerState.index + 1]
         /\ mediaViewerState.currentFile[1] = sessions[mediaSession].leafPath

\* The viewer shows an item of a session that replaced an earlier one.
C12_Witness ==
  /\ mediaViewerState.isOpen
  /\ mediaViewerState.currentFile # NoFile
  /\ mediaViewerState.sessionRequestId >= 2

\* C13: closing the viewer leaves it closed, with index -1, no item, no
\* session bound, and no index pending in the live session; closing a
\* closed viewer changes nothing, so closing twice is closing once.
C13_CloseResets ==
  LET w1 == closeMediaViewer(World, FALSE) IN
    /\ w1.viewer = [isOpen |-> FALSE, index |-> -1, sessionRequestId |-> 0,
                    currentFile |-> NoFile]
    /\ w1.sess[mediaSession].pendingIndex = NoIndex
    /\ closeMediaViewer(w1, FALSE) = w1
    /\ ~mediaViewerState.isOpen => w1 = World

\* The viewer is closed on a live session whose next page was asked for by
\* the viewer when it was open.
C13_Witness ==
  /\ ~mediaViewerState.isOpen
  /\ mediaSession # 0
  /\ inflight[mediaSession] # <<>>
  /\ Head(inflight[mediaSession]) >= 1

\* The states that the updates of the tag sort mode, of the tag search
\* query, of the excluded-tag panel and of the saved directories lead to.
NonStructuralUpdates ==
  {sortSelectChange(World, value) : value \in {"alphabetical", "frequency"}}
    \cup {handleTagSearchFormSubmit(World, value) : value \in SearchInputs}
    \cup {excludedTagPanelToggle(World)}
    \cup {savedTagsResult(World, tags) : tags \in SavedTagLists}

\* C15 as stated: an update of the tag sort mode, of the tag search query,
\* of the excluded-tag panel or of the saved directories leaves the live
\* session as it is (same requestId, same items, same pendingIndex) and the
\* viewer as open or closed as it was, at the same index.
C15_AsStated ==
  \A w1 \in NonStructuralUpdates :
    /\ w1.sess[w1.cur].requestId = sessions[mediaSession].requestId
    /\ w1.sess[w1.cur].items = sessions[mediaSession].items
    /\ w1.sess[w1.cur].pendingIndex = sessions[mediaSession].pendingIndex
    /\ w1.viewer.isOpen = mediaViewerState.isOpen
    /\ w1.viewer.index = mediaViewerState.index

\* C16: when a page that arrives for the live session brings the items past
\* the pending index while the viewer is open on that session, the arrival
\* itself shows the item at that index (the viewer has that index and that
\* item) and clears pendingIndex.
C16_PendingDelivered ==
  LET session == sessions[mediaSession]
      K == session.pendingIndex
  IN
  (/\ inflight[mediaSession] # <<>>
   /\ mediaViewerState.isOpen
   /\ mediaViewerState.sessionRequestId = session.requestId
   /\ K # NoIndex) =>
    \A n \in PageLengths(session.leafPath, Head(inflight[mediaSession])),
       total \in ReportedTotals(session.leafPath) :
      LET w1 == pageArrives(World, mediaSession, n, total) IN
      (Len(session.items) <= K /\ Len(w1.sess[mediaSession].items) > K) =>
        /\ w1.viewer.isOpen
        /\ w1.viewer.index = K
        /\ w1.viewer.currentFile = w1.sess[mediaSession].items[K + 1]
        /\ w1.viewer.currentFile = FileAt(session.leafPath, K)
        /\ w1.sess[mediaSession].pendingIndex = NoIndex

\* The viewer waits at an index that is not loaded, and a page that can
\* arrive for the outstanding request brings the items past that index.
C16_Witness ==
  LET session == sessions[mediaSession] IN
  /\ inflight[mediaSession] # <<>>
  /\ mediaViewerState.isOpen
  /\ session.pendingIndex >= Len(session.items)
  /\ \E n \in PageLengths(session.leafPath, Head(inflight[mediaSession])) :
       Len(pageArrives(World, mediaSession, n, NoTotal).sess[mediaSession].items)
         > session.pendingIndex

\* C17 as stated: a page applied to the live session makes the total the
\* largest of the total before, the offset of the page plus its length, and
\* the total reported with it; so the total never falls, and in every state
\* it is at least the number of items loaded.
C17_AsStated ==
  LET session == sessions[mediaSession] IN
  /\ getMediaSessionTotal(session) >= Len(session.items)
  /\ inflight[mediaSession] # <<>> =>
       \A n \in PageLengths(session.leafPath, Head(inflight[mediaSession])),
          total \in ReportedTotals(session.leafPath) :
         LET w1 == pageArrives(World, mediaSession, n, total)
             applied == w1.sess[mediaSession]
         IN
         Len(applied.items) = Len(session.items) + n =>
           getMediaSessionTotal(applied)
             = Max(getMediaSessionTotal(session),
                   Max(Head(inflight[mediaSession]) + n, total))

\* C18 as stated: opening the viewer at the index of a loaded item of the
\* live session shows that item at once: the viewer is open at that index
\* with that item, and no index is pending.
C18_AsStated ==
  LET session == sessions[mediaSession] IN
  \A K \in 0..(Len(session.items) - 1) :
    LET w1 == openMediaViewerAtIndex(World, K) IN
      /\ w1.viewer.isOpen
      /\ w1.viewer.index = K
      /\ w1.viewer.currentFile = session.items[K + 1]
      /\ w1.sess[mediaSession].pendingIndex = NoIndex

\* The states that the operations showing an item lead to: an opening at
\* the index of a loaded item, a step of the open viewer to a loaded item,
\* and the arrival of a page that brings the pending index.
ShowingSteps ==
  LET session == sessions[mediaSession] IN
  {openMediaViewerAtIndex(World, K) : K \in 0..(Len(session.items) - 1)}
    \cup {w1 \in {stepMediaViewer(World, delta) : delta \in {-1, 1}} :
            w1 # World /\ w1.viewer.currentFile # NoFile}
    \cup {w1 \in {pageArrives(World, mediaSession, n, total) :
                     n \in IF inflight[mediaSession] = <<>> THEN {}
                           ELSE PageLengths(session.leafPath,
                                            Head(inflight[mediaSession])),
                     total \in ReportedTotals(session.leafPath)} :
            /\ session.pendingIndex # NoIndex
            /\ w1.sess[mediaSession].pendingIndex = NoIndex
            /\ w1.viewer.currentFile # NoFile}

\* C19 as stated: when the viewer comes to show a loaded item within two of
\* the end of the loaded items while the session holds fewer items than its
\* total, a page request of the session is outstanding after that step.
C19_AsStated ==
  \A w1 \in ShowingSteps :
    LET after == w1.sess[mediaSession] IN
    (/\ w1.viewer.index >= Len(after.items) - 2
     /\ Len(after.items) < getMediaSessionTotal(after)) =>
      w1.inflight[mediaSession] # <<>>

\* C20 as stated: once a page request of the live session has been answered
\* with no files, no later step of the viewer and no later click on a card
\* issues another page request for that session, be it for an index that is
\* not loaded or as read-ahead.
C20_AsStated ==
  LET session == sessions[mediaSession] IN
  inflight[mediaSession] # <<>> =>
    \A total \in ReportedTotals(session.leafPath) :
      LET w1 == pageArrives(World, mediaSession, 0, total) IN
        /\ \A delta \in {-1, 1} :
             stepMediaViewer(w1, delta).inflight[mediaSession] = <<>>
        /\ \A i \in 1..Len(w1.grid) :
             openMediaViewerAtIndex(w1, w1.grid[i].index).inflight[mediaSession]
               = <<>>

\* C21: when no directory is selected, or the selected one has nothing to
\* load, the current session is the empty idle session (requestId 0, no
\* items, total 0, no index pending, no path), the grid is empty and the
\* viewer closed; and the rendering of every session that is no longer the
\* current one is cancelled: its signal is aborted, and neither a further
\* turn of its render loop nor a page arriving for it appends an item to it
\* or a card to the grid.
C21_DeselectionResets ==
  /\ selectedPath = NoPath => mediaSession = 0
  /\ mediaSession = 0 =>
       /\ sessions[0] = [requestId |-> 0, totalCount |-> 0, items |-> <<>>,
                         pendingIndex |-> NoIndex, loadingPromise |-> "none",
                         leafPath |-> NoPath]
       /\ ~mediaViewerState.isOpen
       /\ grid = <<>>
       /\ mediaRenderAbortController = 0
  /\ \A rid \in SessionIds \ {mediaSession} :
       /\ render[rid].waiting =>
            LET w1 == renderMediaIncrementally(World, rid, TRUE) IN
              /\ aborted[rid]
              /\ w1.grid = grid
              /\ w1.sess[rid].items = sessions[rid].items
              /\ w1.viewer = mediaViewerState
       /\ inflight[rid] # <<>> =>
            \A n \in PageLengths(sessions[rid].leafPath, Head(inflight[rid])),
               total \in ReportedTotals(sessions[rid].leafPath) :
              LET w1 == pageArrives(World, rid, n, total) IN
                /\ w1.grid = grid
                /\ w1.sess[rid].items = sessions[rid].items

\* No directory is selected any more, and the render loop of the session
\* that was current before, with files left to render, has not yet had its
\* next turn.
C21_Witness ==
  /\ selectedPath = NoPath
  /\ mediaSession = 0
  /\ \E rid \in SessionIds \ {0} :
       /\ render[rid].waiting
       /\ render[rid].queue # <<>>
       /\ sessions[rid].items # <<>>

\* The states that a selection of a directory leads to: a click on a
\* directory of the list, and the arrival of a scan result.
Selections ==
  {updateState(World, [selectedPath |-> getVisibleLeaves(World)[i].path]) :
     i \in 1..Len(getVisibleLeaves(World))}
    \cup {selectRootResult(World, result) : result \in ScanResults}

\* C22: a session started for a directory gets a requestId that is one more
\* than the counter, so greater than every requestId given before; the
\* sessions still referenced have different requestIds, none above the
\* counter, and a session of a directory never has requestId 0.
C22_SessionIdentity ==
  /\ \A rid \in SessionIds :
       /\ sessions[rid].requestId <= mediaSessionSequence
       /\ sessions[rid].leafPath # NoPath => sessions[rid].requestId >= 1
       /\ \A other \in SessionIds \ {rid} :
            sessions[rid].requestId # 0 =>
              sessions[rid].requestId # sessions[other].requestId
  /\ \A w1 \in Selections :
       /\ w1.seq >= mediaSessionSequence
       /\ w1.cur # 0 =>
            /\ w1.seq = mediaSessionSequence + 1
            /\ w1.sess[w1.cur].requestId = w1.seq
            /\ \A rid \in SessionIds :
                 sessions[rid].requestId < w1.sess[w1.cur].requestId

\* A second session is current while a page request of the first is still
\* outstanding.
C22_Witness ==
  /\ mediaSession # 0
  /\ sessions[mediaSession].requestId >= 2
  /\ \E rid \in SessionIds \ {0, mediaSession} :
       /\ inflight[rid] # <<>>
       /\ sessions[rid].requestId >= 1

\* C29: when an index is pending in the live session, the viewer is open on
\* that session and shows no item, and the index is one that is not loaded
\* and lies below the total.
C29_PendingIndexInvariant ==
  LET session == sessions[mediaSession] IN
  session.pendingIndex # NoIndex =>
    /\ mediaViewerState.isOpen
    /\ mediaViewerState.sessionRequestId = session.requestId
    /\ mediaViewerState.currentFile = NoFile
    /\ Len(session.items) <= session.pendingIndex
    /\ session.pendingIndex <= getMediaSessionTotal(session) - 1

\* C30: the guard of the live session is set only while its initial render
\* or a page request of it is in progress, and the completion of that work,
\* with files, with none or with a failure, leaves no guard without work.
C30_GuardRelease ==
  LET rid == mediaSession
      session == sessions[rid]
      GuardHasWork(w) ==
        /\ w.sess[w.cur].loadingPromise = "render" => w.render[w.cur].waiting
        /\ w.sess[w.cur].loadingPromise = "fetch" => w.inflight[w.cur] # <<>>
  IN
  /\ GuardHasWork(World)
  /\ session.requestId = 0 => session.loadingPromise = "none"
  /\ render[rid].waiting =>
       GuardHasWork(renderMediaIncrementally(World, rid, TRUE))
  /\ inflight[rid] # <<>> =>
       /\ pageFails(World, rid).sess[rid].loadingPromise = "none"
       /\ \A n \in PageLengths(session.leafPath, Head(inflight[rid])),
             total \in ReportedTotals(session.leafPath) :
            pageArrives(World, rid, n, total).sess[rid].loadingPromise = "none"

\* The guard of the live session is held by a page request that was made
\* after earlier work of the session had completed and released it.
C30_Witness ==
  LET session == sessions[mediaSession] IN
  /\ session.loadingPromise = "fetch"
  /\ inflight[mediaSession] # <<>>
  /\ ~render[mediaSession].waiting
  /\ session.items # <<>>

\* An index is pending past items that are loaded, after a page that did
\* not reach it.
C29_Witness ==
  LET session == sessions[mediaSession] IN
  /\ session.items # <<>>
  /\ session.pendingIndex > Len(session.items)
  /\ inflight[mediaSession] = <<>>

(***************************************************************************)
(* Properties of the derived tags and the excluded keywords.               *)
(***************************************************************************)
\* The keywords that occur in the catalogue or can be typed or clicked.
AllKeywords ==
  Keywords
    \cup UNION {Range(extractKeywords(getLeafName(leaf))) :
                  leaf \in {LeafA, LeafB, LeafC, LeafD}}
    \cup UNION {Range(extractKeywords(value)) : value \in FormInputs}

\* The number of leaves whose name holds the keyword.
Occurrences(keyword) ==
  Cardinality({i \in 1..Len(leaves) :
                 keyword \in Range(extractKeywords(getLeafName(leaves[i])))})

\* C9: a keyword is a derived tag exactly when it is a keyword of at least
\* MIN_TAG_OCCURRENCE leaves and is not excluded.
C9_TagPromotion ==
  \A keyword \in AllKeywords :
    (\E i \in 1..Len(derivedTags) : derivedTags[i].id = keyword)
      <=> /\ Occurrences(keyword) >= MIN_TAG_OCCURRENCE
          /\ keyword \notin Range(excludedTags)

\* Of two keywords that each occur in two leaves one is excluded and the
\* other is a derived tag, beside a keyword that occurs once.
C9_Witness ==
  /\ \E keyword \in Range(excludedTags) :
       Occurrences(keyword) >= MIN_TAG_OCCURRENCE
  /\ derivedTags # <<>>
  /\ \E keyword \in AllKeywords : Occurrences(keyword) = 1

\* C10: excluding a keyword that is excluded already, by the button of a
\* tag or by the form, and restoring a keyword that is not excluded, leave
\* the excluded keywords as they are.
C10_ExclusionIdempotent ==
  /\ \A tagId \in AllKeywords :
       tagId \in Range(excludedTags) =>
         handleExcludeTag(World, tagId).excludedTags = excludedTags
  /\ \A value \in FormInputs :
       Range(extractKeywords(value)) \subseteq Range(excludedTags) =>
         handleExcludedTagFormSubmit(World, value).excludedTags = excludedTags
  /\ \A tagId \in AllKeywords :
       tagId \notin Range(excludedTags) =>
         handleRestoreExcludedTag(World, tagId).excludedTags = excludedTags

\* Two keywords are excluded and a third is not.
C10_Witness ==
  /\ Len(excludedTags) >= 2
  /\ \E tagId \in Keywords : tagId \notin Range(excludedTags)

\* The states that an addition to the excluded keywords or a removal from
\* them leads to: the exclude button of a tag, the form, the restore button.
ExclusionUpdates ==
  {handleExcludeTag(World, tagId) : tagId \in AllKeywords}
    \cup {handleExcludedTagFormSubmit(World, value) : value \in FormInputs}
    \cup {handleRestoreExcludedTag(World, tagId) : tagId \in AllKeywords}

VisiblePaths(w) ==
  {getVisibleLeaves(w)[i].path : i \in 1..Len(getVisibleLeaves(w))}

\* The states that the updates which name no directory lead to: a click on
\* a filter, an exclusion, a restoration, the form.
FilterUpdates ==
  {filterButtonClick(World, tagId) :
     tagId \in {NoTag} \cup {derivedTags[i].id : i \in 1..Len(derivedTags)}}
    \cup ExclusionUpdates

\* C27: no directory is selected exactly when no leaf is visible, and a
\* selected directory is one of the visible leaves; an update that leaves
\* the selected directory among the visible leaves keeps it, and one that
\* does not selects the first visible leaf.
C27_SelectionVisible ==
  /\ selectedPath = NoPath <=> getVisibleLeaves(World) = <<>>
  /\ selectedPath # NoPath => selectedPath \in VisiblePaths(World)
  /\ \A w1 \in FilterUpdates :
       /\ w1.selectedPath = NoPath <=> getVisibleLeaves(w1) = <<>>
       /\ getVisibleLeaves(w1) # <<>> =>
            w1.selectedPath = IF selectedPath \in VisiblePaths(w1)
                              THEN selectedPath
                              ELSE getVisibleLeaves(w1)[1].path

\* A filter is on that hides the first leaf of the list and others, and
\* the selected directory is the first of those it leaves visible.
C27_Witness ==
  /\ activeTag # NoTag
  /\ Len(getVisibleLeaves(World)) >= 1
  /\ Len(getVisibleLeaves(World)) < Len(leaves)
  /\ leaves[1].path \notin VisiblePaths(World)
  /\ selectedPath = getVisibleLeaves(World)[1].path

\* C28: the active tag is null or the id of one of the derived tags, and
\* so is not one of the excluded keywords, whatever scans, filter clicks,
\* exclusions and restorations went before.
C28_ActiveTagDerived ==
  activeTag # NoTag =>
    /\ \E i \in 1..Len(derivedTags) : derivedTags[i].id = activeTag
    /\ activeTag \notin Range(excludedTags)

\* A tag is active while another keyword that occurs as often is excluded.
C28_Witness ==
  /\ activeTag # NoTag
  /\ \E keyword \in Range(excludedTags) :
       Occurrences(keyword) >= MIN_TAG_OCCURRENCE

(***************************************************************************)
(* Properties of the tokenizer.                                            *)
(***************************************************************************)
\* The tokens of a name: its maximal runs of star glyphs and its maximal
\* runs of letters and digits.
Tokens(name) ==
  LET run(i, j, inClass(_)) ==
        /\ \A k \in i..j : inClass(name[k])
        /\ i = 1 \/ ~inClass(name[i - 1])
        /\ j = Len(name) \/ ~inClass(name[j + 1])
      star(c) == c = "*"
  IN {SubSeq(name, i, j) : i \in 1..Len(name), j \in 1..Len(name)}
       \cap {SubSeq(name, p[1], p[2]) :
               p \in {q \in (1..Len(name)) \X (1..Len(name)) :
                        /\ q[1] <= q[2]
                        /\ \/ run(q[1], q[2], star)
                           \/ run(q[1], q[2], IsWordChar)}}

\* The keywords the rule gives a name.
RuleKeywords(name) ==
  {t \in Tokens(name) : \A i \in 1..Len(t) : t[i] = "*"}
    \cup {toLowerCase(t) :
            t \in {u \in Tokens(name) :
                     /\ \E i \in 1..Len(u) : u[i] # "*"
                     /\ ~IsNumeric(toLowerCase(u))
                     /\ ~NUMBERED_KEYWORD_PATTERN(toLowerCase(u))
                     /\ Len(u) > 1}}

C14_AsStated ==
  (listRequest # NoRequest /\ listRequest.path \in Directories) =>
    LET T == DirSize(listRequest.path)
        offset == listRequest.offset
        limit == listRequest.limit
        o == IF isFinite(offset) /\ offset.halves >= 0
             THEN offset.halves \div 2 ELSE 0
        s == Min(o, T)
        e == IF isFinite(limit) /\ limit.halves > 0
             THEN Min(s + (limit.halves \div 2), T) ELSE T
    IN /\ listResult.total = T
       /\ listResult.files = DirSlice(listRequest.path, s, e - s)
       /\ listResult.nextOffset = e
       /\ listResult.hasMore <=> e < T
       /\ listMediaFiles(listRequest.path,
                         [offset |-> offset, limit |-> limit]) = listResult

(***************************************************************************)
(* Properties of the order of the tags.                                    *)
(***************************************************************************)
\* The list is the tags of the derived tags that match the query, each
\* once, and the derived tags are as they were.
NewListOf(out) ==
  LET query == toLowerCase(trim(tagSearchQuery)) IN
  /\ Range(out.tags)
       = {tag \in Range(derivedTags) : matchesTagSearch(tag, query)}
  /\ \A i, j \in 1..Len(out.tags) : out.tags[i] = out.tags[j] => i = j
  /\ out.derivedTags = derivedTags

NoTwoOfAPath(tags) ==
  \A i, j \in 1..Len(tags) : tags[i].path = tags[j].path => i = j

HasPath(tags, rootPath) == \E i \in 1..Len(tags) : tags[i].path = rootPath

\* C24: the list of saved roots holds no two entries of a path, in memory
\* and in every payload on its way to the file, however the calls and the
\* writes interleave; recordRootTag puts a new path at the end and
\* removeRootTag takes the entry of a path out, the others staying in their
\* order; recordRootTag of a path that is there and removeRootTag of a path
\* that is not change nothing and start no write.
C24_RootTagSet ==
  /\ NoTwoOfAPath(state.rootTags)
  /\ \A i \in 1..Len(persists) : NoTwoOfAPath(persists[i].payload)
  /\ \A rootPath \in RootPaths :
       LET recorded == recordRootTag(Prefs, rootPath)
           removed == removeRootTag(Prefs, rootPath)
       IN
       IF HasPath(state.rootTags, rootPath)
       THEN /\ recorded = Prefs
            /\ getRootTags(removed)
                 = SelectSeq(state.rootTags, LAMBDA tag : tag.path # rootPath)
            /\ Len(getRootTags(removed)) = Len(state.rootTags) - 1
            /\ Len(removed.persists) = Len(persists) + 1
       ELSE /\ removed = Prefs
            /\ SubSeq(getRootTags(recorded), 1, Len(state.rootTags))
                 = state.rootTags
            /\ Len(getRootTags(recorded)) = Len(state.rootTags) + 1
            /\ getRootTags(recorded)[Len(state.rootTags) + 1].path = rootPath
            /\ Len(recorded.persists) = Len(persists) + 1

\* Two writes are on their way at once, the payload of one older than the
\* list in memory, and a file has been read or written before.
C24_Witness ==
  /\ Len(state.rootTags) >= 2
  /\ Len(persists) = 2
  /\ \E i \in 1..2 :
       /\ persists[i].stage = "write"
       /\ persists[i].payload # state.rootTags
  /\ storeFile # <<>>

(***************************************************************************)
(* Properties of the worker image loader.                                  *)
(***************************************************************************)
\* Work is under way for the id: its request is on the way to the worker,
\* the worker is at it, or the worker's answer is on the way back.
InProgress(id) ==
  \/ \E i \in 1..Len(toWorker) :
       toWorker[i].id = id /\ toWorker[i].type = "load"
  \/ imageWorker.stage[id] \in {"fetch", "decode"}
  \/ \E i \in 1..Len(toMain) : toMain[i].id = id

\* C26: the promise of a load call is never settled twice, and while it is
\* not settled its id is pending and work is under way for it, so that it
\* is settled when the work ends.  An abort of the signal of a call that
\* is not settled rejects its promise with AbortError, takes the pending
\* entry away and sends the worker a cancel message; an answer of the
\* worker for an id that is not pending is dropped: no promise is touched,
\* and a bitmap in it is closed.
C26_LoadSettlesOnce ==
  /\ \A k \in 1..imageLoader.calls :
       LET promise == imageLoader.promises[k] IN
       /\ Len(promise.settled) <= 1
       /\ promise.settled = <<>> =>
            /\ promise.id # 0
            /\ promise.id \in imageLoader.pending
            /\ InProgress(promise.id)
       /\ promise.settled # <<>> => promise.id \notin imageLoader.pending
       /\ (promise.signal = "live" /\ promise.settled = <<>>) =>
            LET l1 == abortSignal(Loader, k) IN
              /\ l1.main.promises[k].settled = <<"AbortError">>
              /\ promise.id \notin l1.main.pending
              /\ l1.toWorker
                   = Append(toWorker, [id |-> promise.id, type |-> "cancel"])
  /\ (toMain # <<>> /\ Head(toMain).id \notin imageLoader.pending) =>
       LET l1 == loaderOnMessage([Loader EXCEPT !.toMain = Tail(@)],
                                 Head(toMain))
       IN /\ l1.main.promises = imageLoader.promises
          /\ Head(toMain).kind = "bitmap" => Head(toMain).id \in l1.main.closed

\* A call was aborted while the worker was decoding: its promise is
\* rejected with AbortError, once, and the bitmap that came after all has
\* been closed.
C26_Witness ==
  \E k \in 1..imageLoader.calls :
    /\ imageLoader.promises[k].signal = "aborted"
    /\ imageLoader.promises[k].settled = <<"AbortError">>
    /\ imageLoader.promises[k].id \in imageLoader.closed
    /\ ~imageLoader.disposed

=============================================================================
